---------------------------- MODULE Spec2Model ----------------------------
(***************************************************************************)
(* A model of the synthetic Query Store DMV generator                      *)
(* (src/demos/004_sql_dmv/synthetic_dmv_generator).                        *)
(*                                                                         *)
(* Thirteen specifications share this module:                              *)
(*   Spec     the orchestrator SyntheticDMVGenerator: its six entity       *)
(*            collections, the IdGenerator counters and the stage methods, *)
(*            called through generate() or one by one.  Rows carry their   *)
(*            identifiers and references; the metric columns of a row are  *)
(*            the subject of RowSpec and WaitSpec.                         *)
(*   RowSpec  one pass of the runtime-statistics loop: the samples, the    *)
(*            pressure factors and the avg/min/max/last reductions of one  *)
(*            row, under every workload and pressure override.             *)
(*   WaitSpec the same pass followed by one pass of the wait-statistics    *)
(*            loop on the row it built.                                    *)
(*   CatSpec  a generate() run up to one pass of the outer loop of the     *)
(*            wait-statistics stage, with its selection of categories.     *)
(*   TwinSpec two generators built from equal configurations in one        *)
(*            process, which share the process-wide Faker random state.    *)
(*   CatalogSpec one call of get_workload_by_name of the workload          *)
(*            catalogue, for known and unknown names in any letter case.   *)
(*   ErrSpec  the ErrorLogGenerator, independent of the orchestrator, and  *)
(*            ErrorLogExporter.export on the entries it returns; its       *)
(*            times are whole seconds.                                     *)
(*   RoundTripSpec TextExporter writing one collection to a file and       *)
(*             DMVFileParser reading the file back.                        *)
(*   AnalyzerSpec DMVFileParser on a runtime-statistics file with well     *)
(*             formed and malformed lines, then                            *)
(*             StatisticalAnalyzer.analyze_runtime_stats on its rows.      *)
(*   InferSpec the selection of a profile for a query text, the SQL        *)
(*             generated for it and the profile inferred back from it.     *)
(*   ValidatorSpec one call of validate_stats_consistency.                 *)
(*   FieldSpec stages 3 and 4 of generate() with the random fields of      *)
(*             Query and ExecutionPlan.                                    *)
(*   WalkSpec  the while loop of _generate_time_intervals, one iteration   *)
(*             at a time, for any integer interval_hours.                  *)
(*                                                                         *)
(* Units.  Query-store time is in ticks of 12 minutes (5 ticks = 1 hour),  *)
(* so that 20% and 80% of a whole number of hours are whole.  Every float  *)
(* is an exact rational [num, den].                                        *)
(***************************************************************************)
EXTENDS Integers, Sequences, FiniteSets, TLC

\* ------------------------------------------------------------------ bounds
\* Latest end_time of a configuration, in hours after start_time.
MaxEndHours == 2
\* Largest interval_hours of a configuration.
MaxIntervalHours == 2
\* Number of stage methods a caller invokes directly on one generator.
MaxCalls == 3

\* Length of the word stream of a Faker seed that is looked at.
MaxWords == 12

\* Largest sample of the Poisson law of the execution count.
MaxExec == 2

\* The values of num_unique_queries a configuration is drawn from.
QueryCounts == {-1, 0, 1}

VARIABLES
    config,         \* GeneratorConfig of the generator
    pc,             \* position of generate(): "idle", a stage name, "done"
    calls,          \* stage methods invoked directly so far
    counters,       \* IdGenerator.counters
    intervals,      \* self.intervals
    query_texts,    \* self.query_texts
    queries,        \* self.queries
    plans,          \* self.plans
    runtime_stats,  \* self.runtime_stats
    wait_stats,     \* self.wait_stats
    stats,          \* RowSpec: the local stats of the runtime-statistics loop,
                    \*   <<>> before its first pass, else <<row>>
    wait_stat,      \* RowSpec: the local wait_stat of the wait-statistics
                    \*   loop, <<>> or <<row>>
    drawn,          \* RowSpec: the random draws the row in stats was built
                    \*   from, <<>> or <<d>>
    wait_rows,      \* CatSpec: the rows one pass of the outer loop of the
                    \*   wait-statistics stage appends for the row in stats
    twin,           \* TwinSpec: the two generators of one process
    join_at,        \* TwinSpec: the place of the word "join" in the word
                    \*   stream of the Faker seed, 0 when it has none
    faker_pos,      \* TwinSpec: words drawn from the shared Faker random
                    \*   state since it was last seeded
    tape,           \* TwinSpec: the draws of the numpy generator of the seed
                    \*   as the first run met them, <<>> before it
    given_name,     \* CatalogSpec: the argument of get_workload_by_name
    outcome,        \* CatalogSpec: <<>> before the call, then <<what the
                    \*   call returned or raised>>
    errorlog,       \* ErrSpec: the ErrorLogGenerator: start_time, end_time,
                    \*   entries, and whether generate() has returned
    exported,       \* ErrSpec: <<>> before ErrorLogExporter.export, then
                    \*   <<the caller's list as passed, the same list after
                    \*   the call, the rows written>>
    passed,         \* RoundTripSpec: the collection handed to TextExporter
    text_file,      \* RoundTripSpec: <<>> before the export, then <<the
                    \*   lines of the file written>>
    parsed,         \* RoundTripSpec, AnalyzerSpec: <<>> before parsing, then
                    \*   <<the method called and the rows it returned>>
    analysis,       \* AnalyzerSpec: <<>> before analyze_runtime_stats, then
                    \*   <<what it returned or raised>>
    given_stats,    \* ValidatorSpec: the argument of
                    \*   validate_stats_consistency
    verdict,        \* ValidatorSpec: <<>> before the call, then <<what the
                    \*   call returned or raised>>
    chosen,         \* InferSpec: the workload of a generator and the
                    \*   profile selected for a query text
    sql_text,       \* InferSpec: <<>>, then <<the SQL text generated for
                    \*   the selected profile>>
    inferred        \* InferSpec: <<>>, then <<what _infer_profile_from_sql
                    \*   returned or raised for the text>>

pipeVars == <<config, pc, calls, counters, intervals, query_texts, queries,
              plans, runtime_stats, wait_stats>>

rowVars == <<stats, wait_stat, drawn, wait_rows>>

twinVars == <<twin, join_at, faker_pos, tape>>

catalogVars == <<given_name, outcome>>

errVars == <<errorlog, exported>>

ioVars == <<passed, text_file, parsed, analysis>>

checkVars == <<given_stats, verdict>>

inferVars == <<chosen, sql_text, inferred>>

vars == <<pipeVars, rowVars, twinVars, catalogVars, errVars, ioVars, checkVars, inferVars>>

\* ------------------------------------------------------------- primitives
Min(a, b) == IF a <= b THEN a ELSE b

Max(a, b) == IF a >= b THEN a ELSE b

\* datetime.timedelta(hours=h), in ticks.
timedelta(hours) == 5 * hours

\* numpy Generator.integers(low, high): high is exclusive.
integers(low, high) == low .. (high - 1)

\* ------------------------------------------------------- exact arithmetic
\* A float is modelled by the exact rational it stands for, kept in lowest
\* terms: [num, den] with den > 0.  Rounding of the binary representation is
\* not modelled.
Abs(a) == IF a < 0 THEN -a ELSE a

RECURSIVE GCD(_, _)
GCD(a, b) == IF b = 0 THEN a ELSE GCD(b, a % b)

Frac(n, d) ==
    LET g == GCD(Abs(n), d)
    IN  [num |-> n \div g, den |-> d \div g]

R(n) == [num |-> n, den |-> 1]

RMul(a, b) ==
    LET g1 == GCD(Abs(a.num), b.den)
        g2 == GCD(Abs(b.num), a.den)
    IN  Frac((a.num \div g1) * (b.num \div g2), (a.den \div g2) * (b.den \div g1))

RDiv(a, b) == RMul(a, [num |-> b.den, den |-> b.num])

RAdd(a, b) == Frac(a.num * b.den + b.num * a.den, a.den * b.den)

RSub(a, b) == RAdd(a, [num |-> -b.num, den |-> b.den])

RLeq(a, b) == a.num * b.den <= b.num * a.den

RMax(a, b) == IF RLeq(b, a) THEN a ELSE b

RMin(a, b) == IF RLeq(a, b) THEN a ELSE b

\* ndarray.astype(int), int(x): truncation toward zero.
Trunc(a) == IF a.num >= 0 THEN a.num \div a.den ELSE -((-a.num) \div a.den)

\* numpy reductions of a non-empty array of rationals.
RECURSIVE np_sum(_)
np_sum(s) == IF Len(s) = 0 THEN R(0) ELSE RAdd(s[1], np_sum(Tail(s)))

\* A mean that forgets to divide by the number of samples.
np_mean_undivided(s) == np_sum(s)

np_mean(s) == RDiv(np_sum(s), R(Len(s)))

RECURSIVE np_min(_)
np_min(s) == IF Len(s) = 1 THEN s[1] ELSE RMin(s[1], np_min(Tail(s)))

RECURSIVE np_max(_)
np_max(s) == IF Len(s) = 1 THEN s[1] ELSE RMax(s[1], np_max(Tail(s)))

\* values[-1]
Last(s) == s[Len(s)]

\* An integer array as the float array the reductions are taken of.
AsFloat(s) == [i \in 1 .. Len(s) |-> R(s[i])]

\* -------------------------------------------------------------- the config
\* GeneratorConfig with its defaults; start_time is the origin of time.
DefaultConfig ==
    [start_time |-> 0,
     end_time |-> timedelta(1),
     interval_hours |-> 1,
     num_unique_queries |-> 1,
     num_plans_per_query_range |-> <<1, 3>>,
     workload_type |-> "mixed",
     cpu_pressure_factor |-> R(1),
     io_pressure_factor |-> R(1),
     memory_pressure_factor |-> R(1),
     random_seed |-> 42]

\* The configurations a generator is built from.  GeneratorConfig validates
\* nothing, so end_time before start_time and non-positive query counts are
\* among them.
Configs ==
    { [DefaultConfig EXCEPT !.end_time = timedelta(e),
                            !.interval_hours = h,
                            !.num_unique_queries = n] :
        e \in (-1) .. MaxEndHours, h \in 1 .. MaxIntervalHours, n \in QueryCounts }

\* ------------------------------------------------------------ IdGenerator
\* IdGenerator.next_id: the counters after issuing an id of entity_type.
next_id(cnt, entity_type) ==
    IF entity_type \notin DOMAIN cnt
    THEN [t \in DOMAIN cnt \cup {entity_type} |->
            IF t = entity_type THEN 1 ELSE cnt[t]]
    ELSE [cnt EXCEPT ![entity_type] = cnt[entity_type] + 1]

\* IdGenerator.current_id
current_id(cnt, entity_type) ==
    IF entity_type \in DOMAIN cnt THEN cnt[entity_type] ELSE 0

\* --------------------------------------------------------- stage 1
\* A walk that forgets to clip the last interval to end_time.
RECURSIVE IntervalWalkUnclipped(_, _, _)
IntervalWalkUnclipped(cfg, current_time, interval_id) ==
    IF current_time < cfg.end_time
    THEN LET end_time == current_time + timedelta(cfg.interval_hours)
         IN  <<[runtime_stats_interval_id |-> interval_id,
                start_time |-> current_time,
                end_time |-> end_time]>>
             \o IntervalWalkUnclipped(cfg, end_time, interval_id + 1)
    ELSE <<>>

\* BaseGenerator._generate_time_intervals: the while loop from current_time.
RECURSIVE IntervalWalk(_, _, _)
IntervalWalk(cfg, current_time, interval_id) ==
    IF current_time < cfg.end_time
    THEN LET end_time == Min(current_time + timedelta(cfg.interval_hours), cfg.end_time)
         IN  <<[runtime_stats_interval_id |-> interval_id,
                start_time |-> current_time,
                end_time |-> end_time]>>
             \o IntervalWalk(cfg, end_time, interval_id + 1)
    ELSE <<>>

_generate_time_intervals(cfg) == IntervalWalk(cfg, cfg.start_time, 1)

\* SyntheticDMVGenerator._generate_intervals: every tuple of the walk is
\* appended to self.intervals.
IntervalsAfter(ivs, cfg) == ivs \o _generate_time_intervals(cfg)

\* --------------------------------------------------------- stage 2
\* SyntheticDMVGenerator._generate_query_texts: iteration i of
\* range(num_unique_queries) on st = [counters, rows].  The SQL text of a row
\* is generated by GenerateSqlForProfile (TwinSpec).
RECURSIVE QueryTextLoop(_, _, _)
QueryTextLoop(i, n, st) ==
    IF i >= n THEN st
    ELSE LET cnt == next_id(st.counters, "query_text")
         IN  QueryTextLoop(i + 1, n,
                [counters |-> cnt,
                 rows |-> Append(st.rows, [query_text_id |-> cnt["query_text"]])])

\* --------------------------------------------------------- stage 3
\* SyntheticDMVGenerator._generate_queries, inner loop: k instances of text.
RECURSIVE QueryInstances(_, _, _)
QueryInstances(k, text, st) ==
    IF k = 0 THEN st
    ELSE LET cnt == next_id(st.counters, "query")
         IN  QueryInstances(k - 1, text,
                [counters |-> cnt,
                 rows |-> Append(st.rows,
                            [query_id |-> cnt["query"],
                             query_text_id |-> text.query_text_id])])

\* Outer loop over self.query_texts from index i; num_queries[i] is the draw
\* rng.integers(1, 3) of text i.
RECURSIVE QueryLoop(_, _, _, _)
QueryLoop(i, texts, num_queries, st) ==
    IF i > Len(texts) THEN st
    ELSE QueryLoop(i + 1, texts, num_queries,
                   QueryInstances(num_queries[i], texts[i], st))

\* --------------------------------------------------------- stage 4
\* A draw of num_plans that may give a query no plan at all.
NumPlansDrawsFromZero(cfg) == integers(0, cfg.num_plans_per_query_range[2])

\* The draw of num_plans: rng.integers(*config.num_plans_per_query_range).
NumPlansDraws(cfg) ==
    integers(cfg.num_plans_per_query_range[1], cfg.num_plans_per_query_range[2])

\* SyntheticDMVGenerator._generate_plans, inner loop: k plans of query.
RECURSIVE PlanInstances(_, _, _)
PlanInstances(k, query, st) ==
    IF k = 0 THEN st
    ELSE LET cnt == next_id(st.counters, "plan")
         IN  PlanInstances(k - 1, query,
                [counters |-> cnt,
                 rows |-> Append(st.rows,
                            [plan_id |-> cnt["plan"],
                             query_id |-> query.query_id])])

\* Outer loop over self.queries from index i.
RECURSIVE PlanLoop(_, _, _, _)
PlanLoop(i, qs, num_plans, st) ==
    IF i > Len(qs) THEN st
    ELSE PlanLoop(i + 1, qs, num_plans, PlanInstances(num_plans[i], qs[i], st))

\* --------------------------------------------------------- stage 5
\* A loop body that records a plan id no plan carries.
RuntimeStatsStepLosingPlan(plan, interval, active, st) ==
    IF ~active THEN st
    ELSE LET cnt == next_id(st.counters, "runtime_stats")
         IN  [counters |-> cnt,
              rows |-> Append(st.rows,
                         [runtime_stats_id |-> cnt["runtime_stats"],
                          plan_id |-> 0,
                          runtime_stats_interval_id |->
                              interval.runtime_stats_interval_id])]

\* One pass of the loop body of _generate_runtime_statistics for (plan,
\* interval): skipped when rng.random() > execution_probability, else a row
\* with a fresh runtime_stats id is appended.  The metric columns of the row
\* are built by MakeRuntimeStats (RowSpec).
RuntimeStatsStep(plan, interval, active, st) ==
    IF ~active THEN st
    ELSE LET cnt == next_id(st.counters, "runtime_stats")
         IN  [counters |-> cnt,
              rows |-> Append(st.rows,
                         [runtime_stats_id |-> cnt["runtime_stats"],
                          plan_id |-> plan.plan_id,
                          runtime_stats_interval_id |->
                              interval.runtime_stats_interval_id])]

\* An inner loop that never moves past the first interval.
RECURSIVE RuntimeStatsIntervalLoopStuck(_, _, _, _, _)
RuntimeStatsIntervalLoopStuck(j, plan, ivs, active, st) ==
    IF j > Len(ivs) THEN st
    ELSE RuntimeStatsIntervalLoopStuck(j + 1, plan, ivs, active,
            RuntimeStatsStep(plan, ivs[1], active[j], st))

\* for interval in self.intervals, from index j.
RECURSIVE RuntimeStatsIntervalLoop(_, _, _, _, _)
RuntimeStatsIntervalLoop(j, plan, ivs, active, st) ==
    IF j > Len(ivs) THEN st
    ELSE RuntimeStatsIntervalLoop(j + 1, plan, ivs, active,
            RuntimeStatsStep(plan, ivs[j], active[j], st))

\* for plan in self.plans, from index i; active[i][j] is the outcome of the
\* skip test of plan i in interval j.
RECURSIVE RuntimeStatsLoop(_, _, _, _, _)
RuntimeStatsLoop(i, ps, ivs, active, st) ==
    IF i > Len(ps) THEN st
    ELSE RuntimeStatsLoop(i + 1, ps, ivs, active,
            RuntimeStatsIntervalLoop(1, ps[i], ivs, active[i], st))

\* --------------------------------------------------------- stage 6
\* The draw of num_wait_categories: rng.integers(1, 5).
NumWaitCategoryDraws == integers(1, 5)

\* for wait_cat in selected_categories: one WaitStats row each, carrying the
\* plan and interval of the runtime-stats row.  The category and the wait
\* times of a row are built by MakeWaitStats (RowSpec).
RECURSIVE WaitRows(_, _, _)
WaitRows(k, row, rows) ==
    IF k = 0 THEN rows
    ELSE WaitRows(k - 1, row,
            Append(rows, [plan_id |-> row.plan_id,
                          runtime_stats_interval_id |->
                              row.runtime_stats_interval_id]))

\* for stats in self.runtime_stats, from index i; num_cat[i] is the number of
\* categories selected for row i.
RECURSIVE WaitStatsLoop(_, _, _, _)
WaitStatsLoop(i, rs, num_cat, rows) ==
    IF i > Len(rs) THEN rows
    ELSE WaitStatsLoop(i + 1, rs, num_cat, WaitRows(num_cat[i], rs[i], rows))

\* ------------------------------------------------------ profiles, workloads
\* config.py: the pre-defined QueryTypeProfile values.
OLTP_PROFILE ==
    [name |-> "OLTP", avg_duration_ms |-> 50, duration_stddev |-> 20,
     avg_cpu_ms |-> 30, cpu_stddev |-> 15,
     avg_logical_reads |-> 100, logical_reads_stddev |-> 50,
     avg_rows |-> 10, rows_stddev |-> 5, execution_frequency |-> 500]

OLAP_PROFILE ==
    [name |-> "OLAP", avg_duration_ms |-> 5000, duration_stddev |-> 2000,
     avg_cpu_ms |-> 4000, cpu_stddev |-> 1500,
     avg_logical_reads |-> 100000, logical_reads_stddev |-> 50000,
     avg_rows |-> 10000, rows_stddev |-> 5000, execution_frequency |-> 5]

PROBLEM_PROFILE ==
    [name |-> "Problematic", avg_duration_ms |-> 15000, duration_stddev |-> 5000,
     avg_cpu_ms |-> 10000, cpu_stddev |-> 3000,
     avg_logical_reads |-> 500000, logical_reads_stddev |-> 200000,
     avg_rows |-> 50000, rows_stddev |-> 20000, execution_frequency |-> 2]

\* workload_patterns.py: the pre-defined WorkloadScenario values.
OLTP_WORKLOAD ==
    [name |-> "OLTP",
     query_profiles |-> <<<<OLTP_PROFILE, Frac(95, 100)>>, <<OLAP_PROFILE, Frac(5, 100)>>>>,
     cpu_pressure |-> Frac(8, 10), io_pressure |-> Frac(7, 10),
     memory_pressure |-> Frac(8, 10)]

OLAP_WORKLOAD ==
    [name |-> "OLAP",
     query_profiles |-> <<<<OLAP_PROFILE, Frac(80, 100)>>, <<OLTP_PROFILE, Frac(15, 100)>>,
                          <<PROBLEM_PROFILE, Frac(5, 100)>>>>,
     cpu_pressure |-> Frac(15, 10), io_pressure |-> Frac(20, 10),
     memory_pressure |-> Frac(18, 10)]

\* A mixed scenario whose proportions were not brought to one.
MIXED_WORKLOAD_unnormalised ==
    [name |-> "Mixed",
     query_profiles |-> <<<<OLTP_PROFILE, Frac(6, 10)>>, <<OLAP_PROFILE, Frac(3, 10)>>,
                          <<PROBLEM_PROFILE, Frac(2, 10)>>>>,
     cpu_pressure |-> R(1), io_pressure |-> R(1), memory_pressure |-> R(1)]

MIXED_WORKLOAD ==
    [name |-> "Mixed",
     query_profiles |-> <<<<OLTP_PROFILE, Frac(60, 100)>>, <<OLAP_PROFILE, Frac(30, 100)>>,
                          <<PROBLEM_PROFILE, Frac(10, 100)>>>>,
     cpu_pressure |-> Frac(10, 10), io_pressure |-> Frac(10, 10),
     memory_pressure |-> Frac(10, 10)]

CPU_PRESSURE_WORKLOAD ==
    [name |-> "CPU Pressure",
     query_profiles |-> <<<<OLTP_PROFILE, Frac(40, 100)>>, <<OLAP_PROFILE, Frac(40, 100)>>,
                          <<PROBLEM_PROFILE, Frac(20, 100)>>>>,
     cpu_pressure |-> Frac(25, 10), io_pressure |-> Frac(12, 10),
     memory_pressure |-> Frac(15, 10)]

IO_BOTTLENECK_WORKLOAD ==
    [name |-> "I/O Bottleneck",
     query_profiles |-> <<<<OLAP_PROFILE, Frac(60, 100)>>, <<PROBLEM_PROFILE, Frac(30, 100)>>,
                          <<OLTP_PROFILE, Frac(10, 100)>>>>,
     cpu_pressure |-> Frac(12, 10), io_pressure |-> Frac(30, 10),
     memory_pressure |-> Frac(10, 10)]

MEMORY_PRESSURE_WORKLOAD ==
    [name |-> "Memory Pressure",
     query_profiles |-> <<<<OLAP_PROFILE, Frac(50, 100)>>, <<PROBLEM_PROFILE, Frac(40, 100)>>,
                          <<OLTP_PROFILE, Frac(10, 100)>>>>,
     cpu_pressure |-> Frac(13, 10), io_pressure |-> Frac(18, 10),
     memory_pressure |-> Frac(30, 10)]

BLOCKING_WORKLOAD ==
    [name |-> "Blocking/Locking",
     query_profiles |-> <<<<OLTP_PROFILE, Frac(70, 100)>>, <<OLAP_PROFILE, Frac(20, 100)>>,
                          <<PROBLEM_PROFILE, Frac(10, 100)>>>>,
     cpu_pressure |-> Frac(6, 10), io_pressure |-> Frac(10, 10),
     memory_pressure |-> Frac(10, 10)]

PARAMETER_SNIFFING_WORKLOAD ==
    [name |-> "Parameter Sniffing",
     query_profiles |-> <<<<OLTP_PROFILE, Frac(50, 100)>>, <<PROBLEM_PROFILE, Frac(50, 100)>>>>,
     cpu_pressure |-> Frac(15, 10), io_pressure |-> Frac(15, 10),
     memory_pressure |-> Frac(12, 10)]

\* A str as far as its case goes: its text in lower case and the places of
\* its upper-case letters.
Str(text) == [text |-> text, upper |-> {}]

\* The name of a generator that calls nothing.
NoName == Str("")

\* A lookup that compares the name as it was given.
lower_forgotten(s) == s

\* str.lower()
lower(s) == [text |-> s.text, upper |-> {}]

\* The keys of the dictionary of get_workload_by_name.
WorkloadNames ==
    {"oltp", "olap", "mixed", "cpu_pressure", "io_bottleneck",
     "memory_pressure", "blocking", "parameter_sniffing"}

\* The dictionary workloads of get_workload_by_name, on one of its keys.
workloads(key) ==
    CASE key = "oltp" -> OLTP_WORKLOAD
      [] key = "olap" -> OLAP_WORKLOAD
      [] key = "mixed" -> MIXED_WORKLOAD
      [] key = "cpu_pressure" -> CPU_PRESSURE_WORKLOAD
      [] key = "io_bottleneck" -> IO_BOTTLENECK_WORKLOAD
      [] key = "memory_pressure" -> MEMORY_PRESSURE_WORKLOAD
      [] key = "blocking" -> BLOCKING_WORKLOAD
      [] key = "parameter_sniffing" -> PARAMETER_SNIFFING_WORKLOAD

\* get_workload_by_name: the scenario of the name in lower case, or the
\* ValueError raised with the name as given and the keys of the dictionary
\* in its message.
get_workload_by_name(workload_name) ==
    LET name_lower == lower(workload_name)
    IN  IF name_lower \notin {Str(key) : key \in WorkloadNames}
        THEN [error |-> "ValueError", unknown |-> workload_name,
              available |-> WorkloadNames]
        ELSE workloads(name_lower.text)

\* list_available_workloads
list_available_workloads ==
    <<"oltp", "olap", "mixed", "cpu_pressure", "io_bottleneck",
      "memory_pressure", "blocking", "parameter_sniffing">>

\* self.workload, set by SyntheticDMVGenerator.__init__ from the configured
\* workload_type and never reassigned.
workload_of(cfg) == get_workload_by_name(Str(cfg.workload_type))

\* ----------------------------------------------------------- the SQL texts
\* Faker().word(): a word of the locale's list.  "join" stands for a word
\* with the letters join in it, "word" for any other word.
Words == {"join", "word"}

\* _generate_sql_for_profile: the query types of a profile (all of them have
\* a positive weight).
QueryTypes(profile) ==
    IF profile.name = "OLTP"
    THEN {"oltp", "stored_proc", "insert_bulk", "select_into", "delete_daterange"}
    ELSE IF profile.name = "OLAP"
         THEN {"olap", "cte", "dynamic_pivot", "window_function", "temp_table"}
         ELSE {"problematic"}

\* _generate_problematic_query: the values of problem_type; the other
\* templates have a single shape as far as the profile inference can tell.
Variants(query_type) ==
    IF query_type = "problematic"
    THEN {"like_leading", "function_on_column", "no_filter", "cross_join"}
    ELSE {"plain"}

\* The number of calls of self.faker.word() a template makes.
WordCalls(query_type, variant) ==
    CASE query_type = "oltp" -> 1
      [] query_type = "olap" -> 6
      [] query_type = "problematic" -> IF variant = "like_leading" THEN 3 ELSE 2
      [] query_type = "stored_proc" -> 1
      [] query_type = "insert_bulk" -> 1
      [] query_type = "select_into" -> 2
      [] query_type = "delete_daterange" -> 1
      [] query_type = "cte" -> 5
      [] query_type = "dynamic_pivot" -> 3
      [] query_type = "window_function" -> 2
      [] query_type = "temp_table" -> 1

\* The words of a template that end up in its text: _generate_problematic
\* _query draws table2 and uses it in the cross join only.
WordsInText(query_type, variant, words) ==
    IF query_type = "problematic" /\ variant # "cross_join"
    THEN {words[i] : i \in DOMAIN words \ {2}}
    ELSE {words[i] : i \in DOMAIN words}

\* The SQL text of a template: its query type and variant stand for the
\* fixed part of the f-string, words for the words put in it.
SqlText(query_type, variant, words) ==
    [query_type |-> query_type, variant |-> variant,
     words |-> WordsInText(query_type, variant, words)]

\* needle in sql.lower(), for the needles of _infer_profile_from_sql.  No
\* template puts a word before a parenthesis, a quote or a blank that would
\* complete one of the other needles.
Contains(sql, needle) ==
    CASE needle = "join" ->
            \/ sql.query_type = "olap"
            \/ sql.query_type = "problematic" /\ sql.variant = "cross_join"
            \/ "join" \in sql.words
      [] needle = "group by" -> sql.query_type \in {"olap", "cte"}
      [] needle = "sum(" -> sql.query_type = "olap"
      [] needle = "avg(" -> sql.query_type = "olap"
      [] needle = "cross join" ->
            sql.query_type = "problematic" /\ sql.variant = "cross_join"
      [] needle = "like '%" ->
            sql.query_type = "problematic" /\ sql.variant = "like_leading"
      [] needle = "year(" ->
            sql.query_type = "problematic" /\ sql.variant = "function_on_column"

\* The value raised by [...][0] on an empty list.
IndexError == [name |-> "IndexError"]

\* [(p, prop) for p, prop in workload.query_profiles if p.name == name][0][0]
FirstProfileNamed(workload, name) ==
    LET hits == {i \in 1 .. Len(workload.query_profiles) :
                    workload.query_profiles[i][1].name = name}
    IN  IF hits = {} THEN IndexError
        ELSE workload.query_profiles[CHOOSE i \in hits : \A k \in hits : i <= k][1]

\* SyntheticDMVGenerator._infer_profile_from_sql
_infer_profile_from_sql(workload, sql) ==
    IF /\ Contains(sql, "join")
       /\ (Contains(sql, "group by") \/ Contains(sql, "sum(") \/ Contains(sql, "avg("))
    THEN FirstProfileNamed(workload, "OLAP")
    ELSE IF \/ Contains(sql, "cross join")
            \/ Contains(sql, "like '%")
            \/ Contains(sql, "year(")
         THEN IF FirstProfileNamed(workload, "Problematic") # IndexError
              THEN FirstProfileNamed(workload, "Problematic")
              ELSE FirstProfileNamed(workload, "OLAP")
         ELSE FirstProfileNamed(workload, "OLTP")

\* ------------------------------------------------------------ the samples
\* The values a random law is sampled at.  Each set lies inside the support
\* of its law and holds the values at which the arithmetic below changes
\* behaviour (a clamp that applies or not, the two ends of a uniform range).

\* rng.poisson(lam): a natural number.
PoissonDraws == 0 .. MaxExec

\* rng.lognormal(mu, sigma): a positive real.
LogNormalDraws == {Frac(1, 2), R(1000)}

\* rng.normal(1.0, 0.3): the noise factor of the logical reads.
NormalDraws == {R(1)}

\* rng.uniform(low, high): the two ends of the range.
uniform(low, high) == {low, high}

\* rng.uniform(0.1, 0.3): the memory fraction of the logical reads.
MemoryDraws == {Frac(2, 10)}

\* An array of size values of a set of draws.
Arrays(draws, size) == [1 .. size -> draws]

\* DistributionSampler.log_normal: a constant array when the law is
\* degenerate, else the samples.
log_normal(mean, stddev, samples) ==
    IF stddev.num = 0 \/ mean.num = 0
    THEN [i \in 1 .. Len(samples) |-> mean]
    ELSE samples

\* SyntheticDMVGenerator._generate_duration_samples
_generate_duration_samples(profile, samples) ==
    LET durations == log_normal(R(profile.avg_duration_ms * 1000),
                                R(profile.duration_stddev * 1000), samples)
    IN  [i \in 1 .. Len(durations) |-> RMax(R(1), durations[i])]

\* CorrelationGenerator.cpu_from_duration
cpu_from_duration(durations, cpu_ratios) ==
    [i \in 1 .. Len(durations) |-> RMul(durations[i], cpu_ratios[i])]

\* CorrelationGenerator.logical_reads_from_duration, reads_per_ms = 100.
logical_reads_from_duration(durations, noise) ==
    [i \in 1 .. Len(durations) |->
        LET duration_ms == RDiv(durations[i], R(1000))
            base_reads == RMul(duration_ms, R(100))
        IN  Max(1, Trunc(RMul(base_reads, noise[i])))]

\* CorrelationGenerator.physical_reads_from_logical
physical_reads_from_logical(logical_reads, cache_hit_ratio, factors) ==
    LET miss_ratio == RSub(R(1), cache_hit_ratio)
    IN  [i \in 1 .. Len(logical_reads) |->
            Max(0, Trunc(RMul(RMul(R(logical_reads[i]), miss_ratio), factors[i])))]

\* Execution times whose offsets are counted from the end of the interval.
execution_times_from_end(interval_start, interval_end, num_executions) ==
    LET interval_duration == interval_end - interval_start
    IN  { <<interval_end + first_offset, interval_end + last_offset>> :
            first_offset \in uniform(0, (interval_duration * 2) \div 10),
            last_offset \in uniform((interval_duration * 8) \div 10,
                                    interval_duration) }

\* BaseGenerator._generate_execution_times: the pairs (first, last) it can
\* return.
_generate_execution_times(interval_start, interval_end, num_executions) ==
    LET interval_duration == interval_end - interval_start
    IN  IF num_executions = 1
        THEN { <<interval_start + offset, interval_start + offset>> :
                 offset \in uniform(0, interval_duration) }
        ELSE { <<interval_start + first_offset, interval_start + last_offset>> :
                 first_offset \in uniform(0, (interval_duration * 2) \div 10),
                 last_offset \in uniform((interval_duration * 8) \div 10,
                                         interval_duration) }

\* The avg/last/min/max columns of one metric, from its sample array.
Quadruple(samples) ==
    [avg |-> np_mean(samples), last |-> Last(samples),
     min |-> np_min(samples), max |-> np_max(samples)]

\* The body of the loop of _generate_runtime_statistics past the skip test:
\* the RuntimeStats row of (plan, interval) under workload, given the draws
\* d = [poisson, lognormal, cpu_ratios, noise, factors, rows, memory, times].
\* The columns that are constant (execution type, writes, CLR time) are left
\* out.
MakeRuntimeStats(workload, profile, plan, interval, runtime_stats_id, d) ==
    LET exec_count == Max(1, d.poisson)
        duration_samples == _generate_duration_samples(profile, d.lognormal)
        cpu_samples == cpu_from_duration(duration_samples, d.cpu_ratios)
        logical_reads == logical_reads_from_duration(duration_samples, d.noise)
        physical_reads ==
            physical_reads_from_logical(logical_reads,
                RDiv(Frac(95, 100), workload.io_pressure), d.factors)
        pressured_duration ==
            [i \in 1 .. exec_count |->
                RMul(duration_samples[i],
                     RMul(workload.cpu_pressure, workload.io_pressure))]
        pressured_cpu ==
            [i \in 1 .. exec_count |-> RMul(cpu_samples[i], workload.cpu_pressure)]
        row_samples ==
            [i \in 1 .. exec_count |->
                Trunc(RMax(R(1), log_normal(R(profile.avg_rows),
                                            R(profile.rows_stddev), d.rows)[i]))]
        memory_samples ==
            [i \in 1 .. exec_count |->
                Max(1, Trunc(RMul(RMul(R(logical_reads[i]), workload.memory_pressure),
                                  d.memory[i])))]
    IN  [runtime_stats_id |-> runtime_stats_id,
         plan_id |-> plan.plan_id,
         runtime_stats_interval_id |-> interval.runtime_stats_interval_id,
         first_execution_time |-> d.times[1],
         last_execution_time |-> d.times[2],
         count_executions |-> exec_count,
         duration |-> Quadruple(pressured_duration),
         cpu_time |-> Quadruple(pressured_cpu),
         logical_io_reads |-> Quadruple(AsFloat(logical_reads)),
         physical_io_reads |-> Quadruple(AsFloat(physical_reads)),
         query_max_used_memory |-> Quadruple(AsFloat(memory_samples)),
         rowcount |-> Quadruple(AsFloat(row_samples))]

\* The draws one pass of the loop body consumes for an interval.
RuntimeStatsDraws(interval) ==
    UNION { LET exec_count == Max(1, k)
            IN  [poisson : {k},
                 lognormal : Arrays(LogNormalDraws, exec_count),
                 cpu_ratios : Arrays(uniform(Frac(60, 100), Frac(95, 100)), exec_count),
                 noise : Arrays(NormalDraws, exec_count),
                 factors : Arrays(uniform(Frac(5, 10), Frac(15, 10)), exec_count),
                 rows : Arrays(LogNormalDraws, exec_count),
                 memory : Arrays(MemoryDraws, exec_count),
                 times : _generate_execution_times(interval.start_time,
                                                   interval.end_time, exec_count)]
          : k \in PoissonDraws }

\* config.py: the values of the enumeration WaitCategory.
WaitCategory ==
    {"Buffer IO", "Network IO", "Memory", "Parallelism", "Preemptive", "Idle",
     "Lock", "Latch", "CPU"}

\* "IO" in wait_cat.value
ContainsIO(value) == value \in {"Buffer IO", "Network IO"}

\* "Memory" in wait_cat.value
ContainsMemory(value) == value = "Memory"

\* The body of the inner loop of _generate_wait_statistics: the WaitStats
\* row of category wait_cat for the runtime-stats row, given the draws
\* d = [ratio, lognormal].  wait_category_id (a hash of the name) and the
\* standard deviation are left out.
MakeWaitStats(workload, row, wait_cat, d) ==
    LET base_wait == RDiv(RMul(row.duration.avg, d.ratio), R(1000))
        avg_wait ==
            IF ContainsIO(wait_cat) THEN RMul(base_wait, workload.io_pressure)
            ELSE IF ContainsMemory(wait_cat)
                 THEN RMul(base_wait, workload.memory_pressure)
                 ELSE base_wait
        samples == log_normal(avg_wait, RMul(avg_wait, Frac(3, 10)), d.lognormal)
        wait_samples == [i \in 1 .. Len(samples) |-> RMax(R(1), samples[i])]
    IN  [plan_id |-> row.plan_id,
         runtime_stats_interval_id |-> row.runtime_stats_interval_id,
         wait_category |-> wait_cat,
         total_query_wait_time_ms |-> np_sum(wait_samples),
         query_wait_time_ms |-> Quadruple(wait_samples)]

\* The draws one pass of the inner loop consumes.
WaitStatsDraws(count_executions) ==
    [ratio : uniform(Frac(5, 100), Frac(40, 100)),
     lognormal : Arrays(LogNormalDraws, count_executions)]

\* ------------------------------------------------- the orchestrator, Spec
\* The stages in the order generate() calls them.
Stages == <<"intervals", "query_texts", "queries", "plans", "runtime_stats",
            "wait_stats">>

StageIndex(stage) == CHOOSE i \in 1 .. Len(Stages) : Stages[i] = stage

\* An orchestrator that skips the stage after the one it has run.
NextStageSkipping(stage) ==
    IF StageIndex(stage) >= Len(Stages) - 1 THEN "done"
    ELSE Stages[StageIndex(stage) + 2]

\* The statement of generate() that follows the call of stage.
NextStage(stage) ==
    IF StageIndex(stage) = Len(Stages) THEN "done"
    ELSE Stages[StageIndex(stage) + 1]

\* Nothing has been exported, parsed or analysed.
IoIdle ==
    /\ passed = [collection |-> "", entities |-> <<>>]
    /\ text_file = <<>>
    /\ parsed = <<>>
    /\ analysis = <<>>

\* No validator has been called.
CheckIdle ==
    /\ given_stats = <<>>
    /\ verdict = <<>>

\* No profile has been selected for a query text.
InferIdle ==
    /\ chosen = <<>>
    /\ sql_text = <<>>
    /\ inferred = <<>>

\* No ErrorLogGenerator has been constructed.
NoErrorLog ==
    [start_time |-> 0, end_time |-> 0, entries |-> <<>>, generated |-> FALSE]

\* SyntheticDMVGenerator.__init__: empty collections, fresh IdGenerator.
Init ==
    /\ config \in Configs
    /\ pc = "idle"
    /\ calls = 0
    /\ counters = <<>>
    /\ intervals = <<>>
    /\ query_texts = <<>>
    /\ queries = <<>>
    /\ plans = <<>>
    /\ runtime_stats = <<>>
    /\ wait_stats = <<>>
    /\ stats = <<>>
    /\ wait_stat = <<>>
    /\ drawn = <<>>
    /\ wait_rows = <<>>
    /\ twin = <<>>
    /\ join_at = 0
    /\ faker_pos = 0
    /\ tape = <<>>
    /\ given_name = NoName
    /\ outcome = <<>>
    /\ errorlog = NoErrorLog
    /\ exported = <<>>
    /\ IoIdle
    /\ CheckIdle
    /\ InferIdle

\* A stage method runs either as the current statement of generate() or as a
\* direct call on an idle generator.
Entered(stage) == pc = stage \/ (pc = "idle" /\ calls < MaxCalls)

Left(stage) ==
    IF pc = "idle"
    THEN pc' = "idle" /\ calls' = calls + 1
    ELSE pc' = NextStage(stage) /\ calls' = calls

\* generate() is entered on a freshly constructed generator.
CallGenerate ==
    /\ pc = "idle"
    /\ calls = 0
    /\ pc' = Stages[1]
    /\ UNCHANGED <<rowVars, twinVars, catalogVars, errVars, ioVars, checkVars, inferVars>>
    /\ UNCHANGED <<config, calls, counters, intervals, query_texts, queries,
                   plans, runtime_stats, wait_stats>>

GenerateIntervals ==
    /\ Entered("intervals")
    /\ intervals' = IntervalsAfter(intervals, config)
    /\ Left("intervals")
    /\ UNCHANGED <<rowVars, twinVars, catalogVars, errVars, ioVars, checkVars, inferVars>>
    /\ UNCHANGED <<config, counters, query_texts, queries, plans,
                   runtime_stats, wait_stats>>

GenerateQueryTexts ==
    /\ Entered("query_texts")
    /\ LET st == QueryTextLoop(0, config.num_unique_queries,
                               [counters |-> counters, rows |-> query_texts])
       IN  counters' = st.counters /\ query_texts' = st.rows
    /\ Left("query_texts")
    /\ UNCHANGED <<rowVars, twinVars, catalogVars, errVars, ioVars, checkVars, inferVars>>
    /\ UNCHANGED <<config, intervals, queries, plans, runtime_stats, wait_stats>>

GenerateQueries ==
    /\ Entered("queries")
    /\ \E num_queries \in [1 .. Len(query_texts) -> integers(1, 3)] :
         LET st == QueryLoop(1, query_texts, num_queries,
                             [counters |-> counters, rows |-> queries])
         IN  counters' = st.counters /\ queries' = st.rows
    /\ Left("queries")
    /\ UNCHANGED <<rowVars, twinVars, catalogVars, errVars, ioVars, checkVars, inferVars>>
    /\ UNCHANGED <<config, intervals, query_texts, plans, runtime_stats,
                   wait_stats>>

GeneratePlans ==
    /\ Entered("plans")
    /\ \E num_plans \in [1 .. Len(queries) -> NumPlansDraws(config)] :
         LET st == PlanLoop(1, queries, num_plans,
                            [counters |-> counters, rows |-> plans])
         IN  counters' = st.counters /\ plans' = st.rows
    /\ Left("plans")
    /\ UNCHANGED <<rowVars, twinVars, catalogVars, errVars, ioVars, checkVars, inferVars>>
    /\ UNCHANGED <<config, intervals, query_texts, queries, runtime_stats,
                   wait_stats>>

\* _generate_plans draws base_time with rng.uniform(0, (end_time -
\* start_time).total_seconds()).  numpy's Generator.uniform rejects a negative
\* range with ValueError in the releases that check it; both outcomes are
\* kept.  The exception leaves the first iteration after its call of
\* next_id("plan") and before the plan is appended.
GeneratePlansRaises ==
    /\ Entered("plans")
    /\ Len(queries) > 0
    /\ config.end_time < config.start_time
    /\ counters' = next_id(counters, "plan")
    /\ IF pc = "idle"
       THEN pc' = "idle" /\ calls' = calls + 1
       ELSE pc' = "error" /\ calls' = calls
    /\ UNCHANGED <<rowVars, twinVars, catalogVars, errVars, ioVars, checkVars, inferVars>>
    /\ UNCHANGED <<config, intervals, query_texts, queries, plans, runtime_stats,
                   wait_stats>>

GenerateRuntimeStatistics ==
    /\ Entered("runtime_stats")
    /\ \E active \in [1 .. Len(plans) -> [1 .. Len(intervals) -> BOOLEAN]] :
         LET st == RuntimeStatsLoop(1, plans, intervals, active,
                                    [counters |-> counters, rows |-> runtime_stats])
         IN  counters' = st.counters /\ runtime_stats' = st.rows
    /\ Left("runtime_stats")
    /\ UNCHANGED <<rowVars, twinVars, catalogVars, errVars, ioVars, checkVars, inferVars>>
    /\ UNCHANGED <<config, intervals, query_texts, queries, plans, wait_stats>>

GenerateWaitStatistics ==
    /\ Entered("wait_stats")
    /\ \E num_cat \in [1 .. Len(runtime_stats) -> NumWaitCategoryDraws] :
         wait_stats' = WaitStatsLoop(1, runtime_stats, num_cat, wait_stats)
    /\ Left("wait_stats")
    /\ UNCHANGED <<rowVars, twinVars, catalogVars, errVars, ioVars, checkVars, inferVars>>
    /\ UNCHANGED <<config, counters, intervals, query_texts, queries, plans,
                   runtime_stats>>

Next ==
    \/ CallGenerate
    \/ GenerateIntervals
    \/ GenerateQueryTexts
    \/ GenerateQueries
    \/ GeneratePlans
    \/ GeneratePlansRaises
    \/ GenerateRuntimeStatistics
    \/ GenerateWaitStatistics

Spec == Init /\ [][Next]_vars

\* ------------------------------------------- properties of the collections
\* The six collections in the order of their stages.
Collections ==
    <<intervals, query_texts, queries, plans, runtime_stats, wait_stats>>

\* The values of field in the rows of a collection.
Column(rows, field) == {rows[i][field] : i \in 1 .. Len(rows)}

IsPrefix(a, b) == Len(a) <= Len(b) /\ SubSeq(b, 1, Len(a)) = a

\* C3: after generate(), no reference dangles: plan and interval ids of the
\* RuntimeStats and WaitStats rows, query ids of the plans and query text ids
\* of the queries are ids of generated rows.
C3_NoDanglingReference ==
    pc = "done" =>
        /\ Column(runtime_stats, "plan_id") \subseteq Column(plans, "plan_id")
        /\ Column(wait_stats, "plan_id") \subseteq Column(plans, "plan_id")
        /\ Column(runtime_stats, "runtime_stats_interval_id")
              \subseteq Column(intervals, "runtime_stats_interval_id")
        /\ Column(wait_stats, "runtime_stats_interval_id")
              \subseteq Column(intervals, "runtime_stats_interval_id")
        /\ Column(plans, "query_id") \subseteq Column(queries, "query_id")
        /\ Column(queries, "query_text_id")
              \subseteq Column(query_texts, "query_text_id")

\* A finished run with two queries, several plans, and runtime and wait rows
\* in both of two intervals.
C3_Witness ==
    /\ pc = "done"
    /\ Len(queries) = 2
    /\ Len(plans) >= 3
    /\ Column(runtime_stats, "runtime_stats_interval_id") = {1, 2}
    /\ Cardinality(Column(runtime_stats, "plan_id")) >= 2
    /\ Len(wait_stats) > Len(runtime_stats)

\* The ids of a collection are strictly increasing in list order.
StrictlyIncreasing(rows, field) ==
    \A i \in 1 .. Len(rows) - 1 : rows[i][field] < rows[i + 1][field]

\* C5: however generate() and the stage methods are called, the ids inside
\* each collection are pairwise distinct and strictly increasing in list
\* order.
C5_IdsStrictlyIncreasing ==
    /\ StrictlyIncreasing(intervals, "runtime_stats_interval_id")
    /\ StrictlyIncreasing(query_texts, "query_text_id")
    /\ StrictlyIncreasing(queries, "query_id")
    /\ StrictlyIncreasing(plans, "plan_id")
    /\ StrictlyIncreasing(runtime_stats, "runtime_stats_id")

\* One step of a generate() run: the stage pc names runs and hands over to
\* the next one in order (or its exception leaves generate()); it extends
\* its own collection at the end and no other collection changes.  A run is
\* entered at the first stage and a finished run takes no further step.
StageStep ==
    /\ pc \in {Stages[k] : k \in 1 .. Len(Stages)} =>
          LET k == StageIndex(pc)
          IN  /\ pc' \in {IF k = 6 THEN "done" ELSE Stages[k + 1], "error"}
              /\ IsPrefix(Collections[k], Collections'[k])
              /\ \A i \in 1 .. 6 : i # k => Collections'[i] = Collections[i]
    /\ (pc = "idle" /\ pc' # "idle") =>
          pc' = "intervals" /\ Collections' = Collections
    /\ pc \in {"done", "error"} => pc' = pc

\* C7: generate() runs the six stages once each in the order intervals,
\* query texts, queries, plans, runtime stats, wait stats; a stage only
\* appends to its own collection and leaves the others unchanged.
C7_StagesInOrder == [][StageStep]_vars

\* A finished run in which every stage has produced rows.
C7_Witness ==
    /\ pc = "done"
    /\ \A k \in 1 .. 6 : Len(Collections[k]) > 0

\* num_unique_queries <= 0 or end_time before start_time.
Malformed(cfg) == cfg.num_unique_queries <= 0 \/ cfg.end_time < cfg.start_time

\* C8: on a malformed configuration a generate() run generates no entity and
\* does not complete.
C8_MalformedConfigRejected ==
    (Malformed(config) /\ calls = 0) =>
        /\ pc # "done"
        /\ \A k \in 1 .. 6 : Len(Collections[k]) = 0

\* C10: the plan counts the plans stage draws from for a query are those of
\* the inclusive configured range, 1, 2 and 3 by default.
C10_InclusivePlanRange ==
    pc = "plans" =>
        NumPlansDraws(config) =
            config.num_plans_per_query_range[1] .. config.num_plans_per_query_range[2]

\* ------------------------------------------------ one row at a time, RowSpec
\* The pressure values a configuration overrides the scenario with.
PressureOverrides == {R(1), R(2)}

\* The configurations of the row specifications: every named workload over
\* three hours cut in intervals of two hours (a whole interval and a clipped
\* one).
WaitConfigs ==
    { [DefaultConfig EXCEPT !.end_time = timedelta(3),
                            !.interval_hours = 2,
                            !.workload_type = w] : w \in WorkloadNames }

\* The same with the three pressure factors of the configuration set.
RowConfigs ==
    { [cfg EXCEPT !.cpu_pressure_factor = f,
                  !.io_pressure_factor = f,
                  !.memory_pressure_factor = f] :
        cfg \in WaitConfigs, f \in PressureOverrides }

\* The profiles _infer_profile_from_sql returns.
InferredProfiles == {OLTP_PROFILE, OLAP_PROFILE, PROBLEM_PROFILE}

\* generate() has run stages 1 to 4 on cfg for one query text with one query
\* and one plan, and stands before _generate_runtime_statistics.
BeforeRuntimeStats(cfg) ==
    /\ config = cfg
    /\ pc = "runtime_stats"
    /\ calls = 0
    /\ intervals = IntervalsAfter(<<>>, cfg)
    /\ LET t == QueryTextLoop(0, 1, [counters |-> <<>>, rows |-> <<>>])
           q == QueryLoop(1, t.rows, <<1>>, [counters |-> t.counters, rows |-> <<>>])
           p == PlanLoop(1, q.rows, <<1>>, [counters |-> q.counters, rows |-> <<>>])
       IN  /\ query_texts = t.rows
           /\ queries = q.rows
           /\ plans = p.rows
           /\ counters = p.counters
    /\ runtime_stats = <<>>
    /\ wait_stats = <<>>
    /\ stats = <<>>
    /\ wait_stat = <<>>
    /\ drawn = <<>>
    /\ wait_rows = <<>>
    /\ twin = <<>>
    /\ join_at = 0
    /\ faker_pos = 0
    /\ tape = <<>>
    /\ given_name = NoName
    /\ outcome = <<>>
    /\ errorlog = NoErrorLog
    /\ exported = <<>>
    /\ IoIdle
    /\ CheckIdle
    /\ InferIdle

RowInit == \E cfg \in RowConfigs : BeforeRuntimeStats(cfg)

WaitInit == \E cfg \in WaitConfigs : BeforeRuntimeStats(cfg)

\* One pass of the loop body of _generate_runtime_statistics that is not
\* skipped, for any plan and interval.
RuntimeStatsBody ==
    /\ pc = "runtime_stats"
    /\ stats = <<>>
    /\ \E i \in 1 .. Len(plans), j \in 1 .. Len(intervals), profile \in InferredProfiles :
         \E d \in RuntimeStatsDraws(intervals[j]) :
            /\ stats' = <<MakeRuntimeStats(workload_of(config), profile, plans[i],
                             intervals[j],
                             next_id(counters, "runtime_stats")["runtime_stats"], d)>>
            /\ drawn' = <<d>>
    /\ UNCHANGED <<wait_stat, wait_rows>>
    /\ UNCHANGED <<pipeVars, twinVars, catalogVars, errVars, ioVars, checkVars, inferVars>>

\* One pass of the inner loop of _generate_wait_statistics for the row stats
\* and any category of the selection.
WaitStatsBody ==
    /\ stats # <<>>
    /\ wait_stat = <<>>
    /\ \E wait_cat \in WaitCategory :
         \E d \in WaitStatsDraws(stats[1].count_executions) :
            wait_stat' = <<MakeWaitStats(workload_of(config), stats[1], wait_cat, d)>>
    /\ UNCHANGED <<stats, drawn, wait_rows>>
    /\ UNCHANGED <<pipeVars, twinVars, catalogVars, errVars, ioVars, checkVars, inferVars>>

RowNext == RuntimeStatsBody

RowSpec == RowInit /\ [][RowNext]_vars

WaitNext == RuntimeStatsBody \/ WaitStatsBody

WaitSpec == WaitInit /\ [][WaitNext]_vars

\* -------------------------------- the selection of wait categories, CatSpec
\* A selection that may pick a category twice.
choice_with_replacement(population, size) == [1 .. size -> population]

\* rng.choice(population, size=size, replace=False): size pairwise distinct
\* members, in any order.
choice(population, size) ==
    {s \in [1 .. size -> population] :
        \A i, j \in 1 .. size : s[i] = s[j] => i = j}

\* The rows the inner loop of _generate_wait_statistics appends for the
\* runtime-stats row and the selected categories, without their wait times
\* (MakeWaitStats).
CategoryRows(row, selected) ==
    [k \in 1 .. Len(selected) |->
        [plan_id |-> row.plan_id,
         runtime_stats_interval_id |-> row.runtime_stats_interval_id,
         wait_category |-> selected[k]]]

\* One pass of the outer loop of _generate_wait_statistics, for any row of
\* self.runtime_stats.
WaitStatsPass ==
    /\ pc = "wait_stats"
    /\ stats = <<>>
    /\ \E i \in 1 .. Len(runtime_stats), num_wait_categories \in NumWaitCategoryDraws :
         \E selected_categories \in choice(WaitCategory, num_wait_categories) :
            /\ stats' = <<runtime_stats[i]>>
            /\ wait_rows' = CategoryRows(runtime_stats[i], selected_categories)
    /\ UNCHANGED <<wait_stat, drawn>>
    /\ UNCHANGED <<pipeVars, twinVars, catalogVars, errVars, ioVars, checkVars, inferVars>>

\* The generators of CatSpec: one query text over one hour.
CatInit == Init /\ config.end_time = timedelta(1) /\ config.num_unique_queries = 1

CatNext ==
    \/ CallGenerate
    \/ GenerateIntervals
    \/ GenerateQueryTexts
    \/ GenerateQueries
    \/ GeneratePlans
    \/ GenerateRuntimeStatistics
    \/ WaitStatsPass

CatSpec == CatInit /\ [][CatNext]_vars

\* C15: for every RuntimeStats row the wait-statistics stage emits between 1
\* and 4 WaitStats rows carrying the plan id and interval id of that row,
\* with pairwise distinct wait categories.
C15_DistinctWaitCategories ==
    (pc = "wait_stats" /\ stats # <<>>) =>
        /\ Len(wait_rows) \in 1 .. 4
        /\ \A k \in 1 .. Len(wait_rows) :
              /\ wait_rows[k].plan_id = stats[1].plan_id
              /\ wait_rows[k].runtime_stats_interval_id
                    = stats[1].runtime_stats_interval_id
        /\ \A k, l \in 1 .. Len(wait_rows) :
              wait_rows[k].wait_category = wait_rows[l].wait_category => k = l

\* A pass that selected four categories for the second runtime-stats row.
C15_Witness ==
    /\ pc = "wait_stats"
    /\ stats # <<>>
    /\ stats[1].runtime_stats_id = 2
    /\ Len(wait_rows) = 4

\* ------------------------------------- two generators, one process: TwinSpec
\* The configuration both generators are built from: the defaults of the
\* model with at most one plan per query.
TwinConfig == [DefaultConfig EXCEPT !.num_plans_per_query_range = <<1, 2>>]

Generators == {"a", "b"}

\* The word the shared Faker random state yields at place pos of the stream
\* of the seed.
WordAt(pos) == IF pos = join_at THEN "join" ELSE "word"

\* The choices _generate_query_texts draws for one text with the numpy
\* generator: the profile, the query type and its variant.
TextChoices(workload) ==
    { [profile |-> workload.query_profiles[i][1], query_type |-> t, variant |-> v] :
        i \in 1 .. Len(workload.query_profiles),
        t \in UNION {QueryTypes(workload.query_profiles[k][1]) :
                        k \in 1 .. Len(workload.query_profiles)},
        v \in {"like_leading", "function_on_column", "no_filter", "cross_join",
               "plain"} }

WellFormed(c) ==
    c.query_type \in QueryTypes(c.profile) /\ c.variant \in Variants(c.query_type)

\* The texts of _generate_query_texts for the choices of each iteration, the
\* words being drawn from the shared Faker state from place pos on.
RECURSIVE SqlTexts(_, _, _, _)
SqlTexts(i, choices, pos, sqls) ==
    IF i > Len(choices) THEN [sqls |-> sqls, pos |-> pos]
    ELSE LET n == WordCalls(choices[i].query_type, choices[i].variant)
             words == [k \in 1 .. n |-> WordAt(pos + k)]
         IN  SqlTexts(i + 1, choices, pos + n,
                Append(sqls, SqlText(choices[i].query_type, choices[i].variant, words)))

\* The name of the profile the runtime-statistics stage infers for a plan:
\* from the text of the query of the plan.
InferredName(workload, plan, qs, sqls) ==
    LET query == CHOOSE q \in {qs[k] : k \in 1 .. Len(qs)} : q.query_id = plan.query_id
    IN  _infer_profile_from_sql(workload, sqls[query.query_text_id]).name

\* The place of pass (i, j) in the order of the runtime-statistics loop.
Rank(i, j, ivs) == (i - 1) * Len(ivs) + j

\* The passes at which this run leaves the draws of the tape: a row is built
\* with another profile than in the first run, so that the Poisson law and
\* the sizes of the sample arrays differ and the numpy generator is left in
\* another state.
Diverging(names, ivs) ==
    { Rank(p[1], p[2], ivs) :
        p \in { q \in (1 .. Len(names)) \X (1 .. Len(ivs)) :
                  tape[1].active[q[1]][q[2]] /\ names[q[1]] # tape[1].names[q[1]] } }

\* The outcomes of the skip tests open to a run: any on a fresh tape, else
\* those of the tape up to the first diverging pass.
ActiveDraws(names, ivs) ==
    LET all == [1 .. Len(names) -> [1 .. Len(ivs) -> BOOLEAN]]
    IN  IF tape = <<>> THEN all
        ELSE { active \in all :
                 \A i \in 1 .. Len(names), j \in 1 .. Len(ivs) :
                    (\A r \in Diverging(names, ivs) : Rank(i, j, ivs) <= r)
                        => active[i][j] = tape[1].active[i][j] }

\* The numbers of wait categories open to a run: any on a fresh tape or past
\* a diverging pass, else those of the tape.
NumCatDraws(names, ivs, rows) ==
    IF tape = <<>> \/ Diverging(names, ivs) # {}
    THEN [1 .. Len(rows) -> NumWaitCategoryDraws]
    ELSE {tape[1].num_cat}

\* A generator that has not been constructed.
Unbuilt ==
    [phase |-> "unbuilt", sqls |-> <<>>, intervals |-> <<>>, query_texts |-> <<>>,
     queries |-> <<>>, plans |-> <<>>, runtime_stats |-> <<>>, wait_stats |-> <<>>]

TwinInit ==
    /\ config = TwinConfig
    /\ pc = "idle"
    /\ calls = 0
    /\ counters = <<>>
    /\ intervals = <<>>
    /\ query_texts = <<>>
    /\ queries = <<>>
    /\ plans = <<>>
    /\ runtime_stats = <<>>
    /\ wait_stats = <<>>
    /\ stats = <<>>
    /\ wait_stat = <<>>
    /\ drawn = <<>>
    /\ wait_rows = <<>>
    /\ twin = [g \in Generators |-> Unbuilt]
    /\ join_at \in 0 .. MaxWords
    /\ faker_pos = 0
    /\ tape = <<>>
    /\ given_name = NoName
    /\ outcome = <<>>
    /\ errorlog = NoErrorLog
    /\ exported = <<>>
    /\ IoIdle
    /\ CheckIdle
    /\ InferIdle

\* SyntheticDMVGenerator(config): a generator with a numpy generator of its
\* own and empty collections; Faker.seed(config.random_seed) seeds the random
\* state all Faker instances of the process share.
Construct(g) ==
    /\ twin[g].phase = "unbuilt"
    /\ twin' = [twin EXCEPT ![g].phase = "built"]
    /\ faker_pos' = 0
    /\ UNCHANGED <<join_at, tape>>
    /\ UNCHANGED <<pipeVars, rowVars, catalogVars, errVars, ioVars, checkVars, inferVars>>

\* g.generate(), from its first statement to its last: the six stages on
\* the collections of g.  The draws of its numpy generator are those of the
\* tape as long as the run makes the calls of the first run; its words come
\* from the shared Faker state.
Generate(g) ==
    /\ twin[g].phase = "built"
    /\ LET workload == workload_of(config)
           ivs == IntervalsAfter(<<>>, config)
           t == QueryTextLoop(0, config.num_unique_queries,
                              [counters |-> <<>>, rows |-> <<>>])
       IN  \E choices \in [1 .. Len(t.rows) -> TextChoices(workload)],
              num_queries \in [1 .. Len(t.rows) -> integers(1, 3)] :
            /\ \A i \in 1 .. Len(t.rows) : WellFormed(choices[i])
            /\ tape # <<>> =>
                  choices = tape[1].choices /\ num_queries = tape[1].num_queries
            /\ LET texts == SqlTexts(1, choices, faker_pos, <<>>)
                   q == QueryLoop(1, t.rows, num_queries,
                                  [counters |-> t.counters, rows |-> <<>>])
               IN  \E num_plans \in [1 .. Len(q.rows) -> NumPlansDraws(config)] :
                    /\ tape # <<>> => num_plans = tape[1].num_plans
                    /\ LET p == PlanLoop(1, q.rows, num_plans,
                                         [counters |-> q.counters, rows |-> <<>>])
                           names == [i \in 1 .. Len(p.rows) |->
                                       InferredName(workload, p.rows[i], q.rows,
                                                    texts.sqls)]
                       IN  \E active \in ActiveDraws(names, ivs) :
                            LET r == RuntimeStatsLoop(1, p.rows, ivs, active,
                                        [counters |-> p.counters, rows |-> <<>>])
                            IN  \E num_cat \in NumCatDraws(names, ivs, r.rows) :
                                 /\ twin' = [twin EXCEPT ![g] =
                                       [phase |-> "done",
                                        sqls |-> texts.sqls,
                                        intervals |-> ivs,
                                        query_texts |-> t.rows,
                                        queries |-> q.rows,
                                        plans |-> p.rows,
                                        runtime_stats |-> r.rows,
                                        wait_stats |->
                                            WaitStatsLoop(1, r.rows, num_cat, <<>>)]]
                                 /\ faker_pos' = texts.pos
                                 /\ tape' = IF tape # <<>> THEN tape
                                            ELSE <<[choices |-> choices,
                                                    num_queries |-> num_queries,
                                                    num_plans |-> num_plans,
                                                    names |-> names,
                                                    active |-> active,
                                                    num_cat |-> num_cat]>>
    /\ UNCHANGED join_at
    /\ UNCHANGED <<pipeVars, rowVars, catalogVars, errVars, ioVars, checkVars, inferVars>>

TwinNext == \E g \in Generators : Construct(g) \/ Generate(g)

TwinSpec == TwinInit /\ [][TwinNext]_vars

\* The numbers of rows of the six collections of a generator.
Counts(g) ==
    <<Len(twin[g].intervals), Len(twin[g].query_texts), Len(twin[g].queries),
      Len(twin[g].plans), Len(twin[g].runtime_stats), Len(twin[g].wait_stats)>>

\* C6: two generators built from equal configurations and each run once
\* with generate() end with the same numbers of intervals, query texts,
\* queries, plans, runtime-stats rows and wait-stats rows.
C6_EqualCounts ==
    (\A g \in Generators : twin[g].phase = "done") => Counts("a") = Counts("b")

\* ------------------------------------ the workload catalogue, CatalogSpec
\* Number of leading letters of a name that may be in upper case.
MaxUpper == 3

\* Names that are no key of the dictionary.
UnknownNames == {"problem", "cpu-pressure", "oltp_workload", "parameter"}

\* The names get_workload_by_name is called with.
Names ==
    {[text |-> t, upper |-> u] :
        t \in WorkloadNames \cup UnknownNames, u \in SUBSET (1 .. MaxUpper)}

\* No generator exists and nothing has been called.
CatalogInit ==
    /\ config = DefaultConfig
    /\ pc = "idle"
    /\ calls = 0
    /\ counters = <<>>
    /\ intervals = <<>>
    /\ query_texts = <<>>
    /\ queries = <<>>
    /\ plans = <<>>
    /\ runtime_stats = <<>>
    /\ wait_stats = <<>>
    /\ stats = <<>>
    /\ wait_stat = <<>>
    /\ drawn = <<>>
    /\ wait_rows = <<>>
    /\ twin = <<>>
    /\ join_at = 0
    /\ faker_pos = 0
    /\ tape = <<>>
    /\ given_name \in Names
    /\ outcome = <<>>
    /\ errorlog = NoErrorLog
    /\ exported = <<>>
    /\ IoIdle
    /\ CheckIdle
    /\ InferIdle

\* get_workload_by_name(given_name) returns or raises.
CallGetWorkloadByName ==
    /\ outcome = <<>>
    /\ given_name # NoName
    /\ outcome' = <<get_workload_by_name(given_name)>>
    /\ UNCHANGED given_name
    /\ UNCHANGED <<pipeVars, rowVars, twinVars, errVars, ioVars, checkVars, inferVars>>

CatalogNext == CallGetWorkloadByName

CatalogSpec == CatalogInit /\ [][CatalogNext]_vars

\* The members of a list.
Range(s) == {s[i] : i \in 1 .. Len(s)}

\* The eight pre-defined scenarios.
Scenarios ==
    {OLTP_WORKLOAD, OLAP_WORKLOAD, MIXED_WORKLOAD, CPU_PRESSURE_WORKLOAD,
     IO_BOTTLENECK_WORKLOAD, MEMORY_PRESSURE_WORKLOAD, BLOCKING_WORKLOAD,
     PARAMETER_SNIFFING_WORKLOAD}

Proportions(scenario) ==
    [k \in 1 .. Len(scenario.query_profiles) |-> scenario.query_profiles[k][2]]

\* abs(a - b) <= tolerance
Within(a, b, tolerance) ==
    /\ RLeq(RSub(a, b), tolerance)
    /\ RLeq(RSub(b, a), tolerance)

\* C18: each of the eight named scenarios has a list of (profile, proportion)
\* pairs whose proportions are all positive and sum to 1.0 within 1e-5.
C18_ProportionsSumToOne ==
    (outcome # <<>> /\ outcome[1] \in Scenarios) =>
        LET proportions == Proportions(outcome[1])
        IN  /\ \A k \in 1 .. Len(proportions) : proportions[k].num > 0
            /\ Within(np_sum(proportions), R(1), Frac(1, 100000))

\* The three-profile mixed scenario was looked up and returned.
C18_Witness ==
    /\ outcome # <<>>
    /\ given_name.text = "mixed"
    /\ outcome[1].name = "Mixed"
    /\ Len(Proportions(outcome[1])) = 3

\* C16: the output of a generator, its SQL texts included, is a function of
\* its own configuration and seed: two generators built from equal
\* configurations end with equal outputs, however their construction and
\* their runs interleave.
C16_OutputOfOwnSeedAlone ==
    (\A g \in Generators : twin[g].phase = "done") => twin["a"] = twin["b"]

\* --------------------------------------------------- properties of a row

RLess(a, b) == ~RLeq(b, a)

\* The row of self.intervals a runtime-stats row references.
IntervalOf(row) ==
    CHOOSE iv \in {intervals[j] : j \in 1 .. Len(intervals)} :
        iv.runtime_stats_interval_id = row.runtime_stats_interval_id

\* C1: every RuntimeStats row, under every named workload, has
\* avg_cpu_time <= avg_duration.
C1_CpuWithinDuration ==
    stats # <<>> => RLeq(stats[1].cpu_time.avg, stats[1].duration.avg)

\* min <= avg <= max and min <= last <= max for one quadruple.
Ordered(q) ==
    /\ RLeq(q.min, q.avg) /\ RLeq(q.avg, q.max)
    /\ RLeq(q.min, q.last) /\ RLeq(q.last, q.max)

\* C2: for each metric of a RuntimeStats row (duration, cpu, logical reads,
\* physical reads, memory, rowcount) and for the wait time of a WaitStats
\* row, min <= avg <= max and min <= last <= max.
C2_QuadruplesOrdered ==
    /\ stats # <<>> =>
          /\ Ordered(stats[1].duration)
          /\ Ordered(stats[1].cpu_time)
          /\ Ordered(stats[1].logical_io_reads)
          /\ Ordered(stats[1].physical_io_reads)
          /\ Ordered(stats[1].query_max_used_memory)
          /\ Ordered(stats[1].rowcount)
    /\ wait_stat # <<>> => Ordered(wait_stat[1].query_wait_time_ms)

\* A row of two executions whose durations, CPU times, row counts and wait
\* times all differ between the executions, with its wait row.
C2_Witness ==
    /\ stats # <<>>
    /\ wait_stat # <<>>
    /\ stats[1].count_executions = 2
    /\ RLess(stats[1].duration.min, stats[1].duration.avg)
    /\ RLess(stats[1].duration.avg, stats[1].duration.max)
    /\ RLess(stats[1].cpu_time.min, stats[1].cpu_time.max)
    /\ RLess(stats[1].logical_io_reads.min, stats[1].logical_io_reads.max)
    /\ RLess(stats[1].physical_io_reads.min, stats[1].physical_io_reads.max)
    /\ RLess(stats[1].query_max_used_memory.min, stats[1].query_max_used_memory.max)
    /\ RLess(stats[1].rowcount.min, stats[1].rowcount.max)
    /\ RLess(wait_stat[1].query_wait_time_ms.min, wait_stat[1].query_wait_time_ms.avg)
    /\ RLess(wait_stat[1].query_wait_time_ms.avg, wait_stat[1].query_wait_time_ms.max)
    /\ wait_stat[1].query_wait_time_ms.last = wait_stat[1].query_wait_time_ms.min

\* C4: a RuntimeStats row lies inside the interval I it references:
\* I.start <= first <= last <= I.end; first = last for one execution; for
\* several, first is in the first 20% of I and last in its final 20%.
C4_ExecutionTimesInInterval ==
    stats # <<>> =>
        LET row == stats[1]
            I == IntervalOf(row)
            length == I.end_time - I.start_time
        IN  /\ I.start_time <= row.first_execution_time
            /\ row.first_execution_time <= row.last_execution_time
            /\ row.last_execution_time <= I.end_time
            /\ row.count_executions = 1 =>
                  row.first_execution_time = row.last_execution_time
            /\ row.count_executions > 1 =>
                  /\ 5 * (row.first_execution_time - I.start_time) <= length
                  /\ 5 * (I.end_time - row.last_execution_time) <= length

\* A row of several executions in the clipped second interval, first at the
\* end of its first fifth and last at the very end of the interval.
C4_Witness ==
    /\ stats # <<>>
    /\ stats[1].count_executions > 1
    /\ stats[1].runtime_stats_interval_id = 2
    /\ LET I == IntervalOf(stats[1])
       IN  /\ I.start_time > 0
           /\ 5 * (stats[1].first_execution_time - I.start_time)
                = I.end_time - I.start_time
           /\ stats[1].last_execution_time = I.end_time

\* The scenario with the multipliers the configuration sets in place of its
\* own, as the command-line help describes the overrides.
WithOverrides(workload, cfg) ==
    [workload EXCEPT
        !.cpu_pressure =
            IF cfg.cpu_pressure_factor = DefaultConfig.cpu_pressure_factor
            THEN @ ELSE cfg.cpu_pressure_factor,
        !.io_pressure =
            IF cfg.io_pressure_factor = DefaultConfig.io_pressure_factor
            THEN @ ELSE cfg.io_pressure_factor,
        !.memory_pressure =
            IF cfg.memory_pressure_factor = DefaultConfig.memory_pressure_factor
            THEN @ ELSE cfg.memory_pressure_factor]

\* C9: a pressure factor set in the configuration replaces the multiplier of
\* the workload scenario: the row is the one its draws give under the
\* overridden multipliers.
C9_OverridesApplied ==
    stats # <<>> =>
        \E profile \in InferredProfiles, i \in 1 .. Len(plans) :
            stats[1] = MakeRuntimeStats(WithOverrides(workload_of(config), config),
                          profile, plans[i], IntervalOf(stats[1]),
                          stats[1].runtime_stats_id, drawn[1])

\* ------------------------------------------ properties of a finished run
\* The rows of queries that reference a query text.
QueriesOf(text) ==
    {i \in 1 .. Len(queries) : queries[i].query_text_id = text.query_text_id}

\* C11: generate() yields exactly num_unique_queries QueryText rows, and
\* every QueryText has 1 or 2 Query rows referencing it.
C11_QueryTextAndQueryCounts ==
    pc = "done" =>
        /\ Len(query_texts) = config.num_unique_queries
        /\ \A k \in 1 .. Len(query_texts) :
              Cardinality(QueriesOf(query_texts[k])) \in {1, 2}

\* C12: after generate() on a configuration with num_unique_queries >= 1 and
\* start_time < end_time, all six collections are non-empty.
C12_AllCollectionsNonEmpty ==
    (/\ pc = "done"
     /\ config.num_unique_queries >= 1
     /\ config.start_time < config.end_time) =>
        \A k \in 1 .. 6 : Len(Collections[k]) > 0

\* C12, amended: on such a configuration intervals, query texts, queries and
\* plans are non-empty whatever the draws; the runtime statistics are empty
\* when every plan is skipped in every interval, and the wait statistics are
\* non-empty exactly when the runtime statistics are.
C12_StructuralCollectionsNonEmpty ==
    (/\ pc = "done"
     /\ config.num_unique_queries >= 1
     /\ config.start_time < config.end_time) =>
        /\ \A k \in 1 .. 4 : Len(Collections[k]) > 0
        /\ Len(wait_stats) > 0 <=> Len(runtime_stats) > 0

\* A finished run on such a configuration in which every plan was skipped
\* in every interval.
C12_Witness ==
    /\ pc = "done"
    /\ config.num_unique_queries >= 1
    /\ config.start_time < config.end_time
    /\ Len(plans) >= 2
    /\ Len(intervals) = 2
    /\ Len(runtime_stats) = 0

\* C13: for start_time < end_time the intervals of a generate() run have ids
\* 1..n in order, start at config.start_time, are contiguous, have positive
\* length of at most interval_hours (only the last may be shorter) and end
\* at config.end_time.
C13_IntervalsTileRange ==
    (/\ calls = 0
     /\ pc \notin {"idle", "intervals"}
     /\ config.start_time < config.end_time) =>
        LET n == Len(intervals)
            length(i) == intervals[i].end_time - intervals[i].start_time
        IN  /\ n >= 1
            /\ \A i \in 1 .. n : intervals[i].runtime_stats_interval_id = i
            /\ intervals[1].start_time = config.start_time
            /\ \A i \in 1 .. n - 1 :
                  /\ intervals[i].end_time = intervals[i + 1].start_time
                  /\ length(i) = timedelta(config.interval_hours)
            /\ \A i \in 1 .. n :
                  length(i) > 0 /\ length(i) <= timedelta(config.interval_hours)
            /\ intervals[n].end_time = config.end_time

\* A finished run over two whole intervals.
C13_Witness ==
    /\ pc = "done"
    /\ calls = 0
    /\ Len(intervals) = 2
    /\ intervals[2].end_time = config.end_time

MaxLogHours == 24

\* datetime.timedelta(days=, hours=, minutes=, seconds=)
timedelta_s(d, h, m, sec) == ((d * 24 + h) * 60 + m) * 60 + sec

ErrorLogEntry(date, message) == [date |-> date, message |-> message]

\* (self.end_time - self.start_time).total_seconds()
total_seconds(log) == log.end_time - log.start_time

\* total_seconds / 3600 / 24
days_of(log) == Frac(total_seconds(log), timedelta_s(1, 0, 0, 0))

\* random.randint(a, b): the draws a and b, both ends included.
randint(a, b) == {a, b}

\* _add_startup_message
add_startup_message(log, entries) ==
    Append(entries,
           ErrorLogEntry(log.start_time + timedelta_s(0, 0, 0, 23), "startup"))

\* The values current_time takes in the passes of
\*     current_time = first; while current_time < end_time: ...; current_time += step
LoopTimes(first, step, end_time) ==
    LET passes == IF first < end_time
                  THEN ((end_time - first - 1) \div step) + 1
                  ELSE 0
    IN  [k \in 1 .. passes |-> first + (k - 1) * step]

\* _generate_policy_check_entries: two entries per pass, every 30 minutes.
generate_policy_check_entries(log, entries) ==
    LET times == LoopTimes(log.start_time, timedelta_s(0, 0, 30, 0), log.end_time)
    IN  entries \o
        [j \in 1 .. 2 * Len(times) |->
            ErrorLogEntry(times[(j + 1) \div 2],
                          IF j % 2 = 1 THEN "policy" ELSE "policy_error")]

\* _generate_certificate_check_entries: one entry per pass, every hour.
generate_certificate_check_entries(log, entries) ==
    LET times == LoopTimes(log.start_time + timedelta_s(0, 0, 30, 37),
                           timedelta_s(0, 1, 0, 0), log.end_time)
    IN  entries \o [k \in 1 .. Len(times) |->
                       ErrorLogEntry(times[k], "certificate")]

\* The draws of random_seconds in _random_timestamp.
RandomSecondsDraws(log) == randint(0, total_seconds(log))

\* _random_timestamp, for the draw random_seconds.
random_timestamp(log, random_seconds) == log.start_time + random_seconds

\* The for loop of the three random streams: one entry per draw.
RandomEntries(log, entries, message, draws) ==
    entries \o [k \in 1 .. Len(draws) |->
                   ErrorLogEntry(random_timestamp(log, draws[k]), message)]

\* num_entries of _generate_informational_entries
NumInformational(log) == Trunc(days_of(log))

\* num_errors and num_warnings, for the draw u of random.uniform
NumScaled(log, u) == Trunc(RMul(days_of(log), u))

\* A sort that leaves the list as it is.
sort_forgotten(s) == s

\* list.sort(key=lambda x: x.date, reverse=True) and
\* sorted(entries, key=lambda x: x.date, reverse=True): a stable sort, newest
\* first.  The entry at place i goes behind every newer entry and behind the
\* entries of its own date that stood before it.
sort_by_date_reverse(s) ==
    LET n == Len(s)
        place == SubSeq([i \in 1 .. n |->
                     1 + Cardinality({j \in 1 .. n :
                           \/ s[j].date > s[i].date
                           \/ s[j].date = s[i].date /\ j < i})], 1, n)
    IN  [k \in 1 .. n |-> s[CHOOSE i \in 1 .. n : place[i] = k]]

\* The list generate() builds before it sorts, for the draws of the three
\* random streams.
UnsortedEntries(log, informational, errors, warnings) ==
    LET e1 == add_startup_message(log, <<>>)
        e2 == generate_policy_check_entries(log, e1)
        e3 == generate_certificate_check_entries(log, e2)
        e4 == RandomEntries(log, e3, "informational", informational)
        e5 == RandomEntries(log, e4, "error", errors)
    IN  RandomEntries(log, e5, "warning", warnings)

\* strftime("%m/%d/%Y %H:%M:%S"): the calendar day and the time of day.
strftime(date) ==
    [day |-> date \div timedelta_s(1, 0, 0, 0),
     time |-> date % timedelta_s(1, 0, 0, 0)]

\* _format_row
format_row(entry) == [date |-> strftime(entry.date), message |-> entry.message]

\* ErrorLogExporter.export: the list as passed, the same list after the call,
\* and the rows written under the header.
export(entries) ==
    LET sorted_entries == sort_by_date_reverse(entries)
    IN  [passed |-> entries,
         entries |-> entries,
         rows |-> [k \in 1 .. Len(sorted_entries) |->
                     format_row(sorted_entries[k])]]

Reverse(s) == [k \in 1 .. Len(s) |-> s[Len(s) + 1 - k]]

\* The list with its first entry moved to the end.
Rotate(s) == [k \in 1 .. Len(s) |-> s[(k % Len(s)) + 1]]

\* The orders in which a caller passes the entries to export.
Orders(s) == {s, Reverse(s), Rotate(s), Reverse(Rotate(s))}

StartTimes == {0, timedelta_s(0, 7, 45, 10)}

\* end_time - start_time for the logs of ErrSpec, all positive.
LogDurations ==
    {timedelta_s(0, 0, 0, 10), timedelta_s(0, 0, 0, 23),
     timedelta_s(0, 0, 0, 24), timedelta_s(0, 0, 30, 0),
     timedelta_s(0, 0, 30, 37), timedelta_s(0, 0, 30, 38),
     timedelta_s(0, 1, 0, 0), timedelta_s(0, 8, 0, 0),
     timedelta_s(0, MaxLogHours, 0, 0)}

\* ErrorLogGenerator.__init__ for start_time < end_time; no generator of
\* query-store data exists.
ErrInit ==
    /\ config = DefaultConfig
    /\ pc = "idle"
    /\ calls = 0
    /\ counters = <<>>
    /\ intervals = <<>>
    /\ query_texts = <<>>
    /\ queries = <<>>
    /\ plans = <<>>
    /\ runtime_stats = <<>>
    /\ wait_stats = <<>>
    /\ stats = <<>>
    /\ wait_stat = <<>>
    /\ drawn = <<>>
    /\ wait_rows = <<>>
    /\ twin = <<>>
    /\ join_at = 0
    /\ faker_pos = 0
    /\ tape = <<>>
    /\ given_name = NoName
    /\ outcome = <<>>
    /\ \E start_time \in StartTimes, d \in LogDurations :
          errorlog = [start_time |-> start_time, end_time |-> start_time + d,
                      entries |-> <<>>, generated |-> FALSE]
    /\ exported = <<>>
    /\ IoIdle
    /\ CheckIdle
    /\ InferIdle

\* ErrorLogGenerator.generate
ErrorLogGenerate ==
    /\ ~errorlog.generated
    /\ \E u_errors \in uniform(R(2), R(5)),
          u_warnings \in uniform(R(1), R(3)) :
          \E informational \in [1 .. NumInformational(errorlog)
                                    -> RandomSecondsDraws(errorlog)],
             errors \in [1 .. NumScaled(errorlog, u_errors)
                             -> RandomSecondsDraws(errorlog)],
             warnings \in [1 .. NumScaled(errorlog, u_warnings)
                               -> RandomSecondsDraws(errorlog)] :
              errorlog' =
                  [errorlog EXCEPT
                      !.entries = sort_by_date_reverse(
                          UnsortedEntries(errorlog, informational, errors,
                                          warnings)),
                      !.generated = TRUE]
    /\ UNCHANGED exported
    /\ UNCHANGED <<pipeVars, rowVars, twinVars, catalogVars, ioVars, checkVars, inferVars>>

\* ErrorLogExporter.export(entries, output_path) on the generated entries in
\* some order.
Export ==
    /\ errorlog.generated
    /\ exported = <<>>
    /\ \E entries \in Orders(errorlog.entries) :
          exported' = <<export(entries)>>
    /\ UNCHANGED errorlog
    /\ UNCHANGED <<pipeVars, rowVars, twinVars, catalogVars, ioVars, checkVars, inferVars>>

ErrNext == ErrorLogGenerate \/ Export

ErrSpec == ErrInit /\ [][ErrNext]_vars

\* C19: every entry generate() returns has start_time <= date <= end_time,
\* for every start_time < end_time.
C19_EntriesWithinRange ==
    errorlog.generated =>
        \A i \in 1 .. Len(errorlog.entries) :
            /\ errorlog.start_time <= errorlog.entries[i].date
            /\ errorlog.entries[i].date <= errorlog.end_time

\* The dates of a list are in non-increasing order.
NewestFirst(s) == \A i \in 1 .. Len(s) - 1 : s[i].date >= s[i + 1].date

\* Date a is not before date b, both as strftime gives them.
NotBefore(a, b) == a.day > b.day \/ (a.day = b.day /\ a.time >= b.time)

\* How often x occurs in the list s.
Count(s, x) == Cardinality({i \in 1 .. Len(s) : s[i] = x})

\* C20: the list generate() returns is in non-increasing date order; export
\* writes one row per entry it is given, rows in non-increasing date order
\* whatever the order of the entries passed, and leaves the caller's list in
\* the order it was passed.
C20_NewestFirst ==
    /\ errorlog.generated => NewestFirst(errorlog.entries)
    /\ exported # <<>> =>
          LET e == exported[1]
              formatted == [k \in 1 .. Len(e.passed) |-> format_row(e.passed[k])]
          IN  /\ Len(e.rows) = Len(e.passed)
              /\ \A r \in Range(e.rows) \cup Range(formatted) :
                    Count(e.rows, r) = Count(formatted, r)
              /\ \A i \in 1 .. Len(e.rows) - 1 :
                    NotBefore(e.rows[i].date, e.rows[i + 1].date)
              /\ e.entries = e.passed

\* A log of a day with entries of all seven kinds, one of them dated
\* end_time, was exported from a list passed oldest first.
C20_Witness ==
    /\ exported # <<>>
    /\ exported[1].passed = Reverse(errorlog.entries)
    /\ exported[1].passed # errorlog.entries
    /\ {"startup", "policy", "policy_error", "certificate", "informational",
        "error", "warning"} = {r.message : r \in Range(exported[1].rows)}
    /\ \E r \in Range(errorlog.entries) : r.date = errorlog.end_time

\* ---------------------------------- text export and re-parsing, RoundTripSpec
\* A line of a text file is the sequence of its pieces between delimiters.  A
\* value joined into a line gives one piece, except the SQL text of a query
\* text, which gives one piece more than it holds delimiters.  Line breaks
\* and quote characters inside a value are not modelled.

\* The default of max_rows_per_file of parse_query_store_files.
DefaultMaxRows == 1000

\* No generator of query-store data exists and no catalogue or error-log call
\* has been made.
NothingGenerated ==
    /\ config = DefaultConfig
    /\ pc = "idle"
    /\ calls = 0
    /\ counters = <<>>
    /\ intervals = <<>>
    /\ query_texts = <<>>
    /\ queries = <<>>
    /\ plans = <<>>
    /\ runtime_stats = <<>>
    /\ wait_stats = <<>>
    /\ stats = <<>>
    /\ wait_stat = <<>>
    /\ drawn = <<>>
    /\ wait_rows = <<>>
    /\ twin = <<>>
    /\ join_at = 0
    /\ faker_pos = 0
    /\ tape = <<>>
    /\ given_name = NoName
    /\ outcome = <<>>
    /\ errorlog = NoErrorLog
    /\ exported = <<>>

\* The six collections a generator holds, by attribute name.
CollectionNames ==
    {"intervals", "query_texts", "queries", "plans", "runtime_stats",
     "wait_stats"}

\* The number of values to_delimited_string joins, per entity class.
Width(collection) ==
    CASE collection = "intervals" -> 4
      [] collection = "query_texts" -> 2
      [] collection = "queries" -> 9
      [] collection = "plans" -> 21
      [] collection = "runtime_stats" -> 40
      [] collection = "wait_stats" -> 10

\* The SQL texts of the exported query texts, as their parts between
\* delimiter characters: one without and one with a semicolon.
SqlParts == {<<"SELECT 1">>, <<"SELECT 1", " SELECT 2">>}

\* An entity of a collection; sql is <<>> but for a query text.
Entity(collection, id, sql) == [collection |-> collection, id |-> id, sql |-> sql]

Piece(text) == [text |-> text, backslash |-> FALSE]

\* to_delimited_string(delimiter) of the six entity classes.  QueryText puts a
\* backslash before every delimiter of its text, which leaves the delimiter
\* in the line.
to_delimited_string(entity) ==
    IF entity.collection = "query_texts"
    THEN <<Piece(ToString(entity.id))>> \o
         [k \in 1 .. Len(entity.sql) |->
             [text |-> entity.sql[k], backslash |-> k < Len(entity.sql)]]
    ELSE [k \in 1 .. Width(entity.collection) |->
             Piece(IF k = 1 THEN ToString(entity.id) ELSE "value")]

\* TextExporter.export_intervals .. export_wait_stats: the lines written
\* behind the byte-order mark.
export_lines(entities) ==
    [k \in 1 .. Len(entities) |-> to_delimited_string(entities[k])]

\* A row of csv.DictReader with fieldnames col_0 .. col_{num_columns - 1}:
\* missing columns hold None (<<>>), surplus pieces go under the key None.
DictRow(line, num_columns) ==
    [cols |-> [c \in 1 .. num_columns |->
                 IF c <= Len(line) THEN <<line[c]>> ELSE <<>>],
     rest |-> SubSeq(line, num_columns + 1, Len(line))]

\* A parser that takes the first line for a header.
parse_file_with_header(lines, max_rows) ==
    [i \in 1 .. Len(lines) - 1 |-> DictRow(lines[i + 1], Len(lines[1]))]

\* DMVFileParser.parse_file; max_rows is <<>> for None, else <<n>>.
parse_file(lines, max_rows) ==
    IF lines = <<>> THEN <<>>
    ELSE LET num_columns == Len(lines[1])
             limited == max_rows # <<>> /\ max_rows[1] # 0
             n == IF limited /\ max_rows[1] < Len(lines)
                  THEN max_rows[1] ELSE Len(lines)
         IN  [i \in 1 .. n |-> DictRow(lines[i], num_columns)]

\* DMVFileParser.parse_query_store_files(directory) on a directory holding
\* the one file: the container of that file.
parse_query_store_files(lines) == parse_file(lines, <<DefaultMaxRows>>)

\* The sizes of the collections exported.
CollectionSizes ==
    {0, 1, 2, 3, DefaultMaxRows - 1, DefaultMaxRows, DefaultMaxRows + 1}

RoundTripInit ==
    /\ NothingGenerated
    /\ \E collection \in CollectionNames, size \in CollectionSizes :
          \E sql \in IF collection = "query_texts" THEN SqlParts ELSE {<<>>} :
              passed = [collection |-> collection,
                        entities |-> [k \in 1 .. size |->
                                        Entity(collection, k, sql)]]
    /\ text_file = <<>>
    /\ parsed = <<>>
    /\ analysis = <<>>
    /\ CheckIdle
    /\ InferIdle

\* TextExporter.export_<collection>(entities, output_path)
ExportCollection ==
    /\ text_file = <<>>
    /\ text_file' = <<export_lines(passed.entities)>>
    /\ UNCHANGED <<passed, parsed, analysis>>
    /\ UNCHANGED <<pipeVars, rowVars, twinVars, catalogVars, errVars, checkVars, inferVars>>

\* DMVFileParser().parse_file(file_path)
ParseFile ==
    /\ text_file # <<>>
    /\ parsed = <<>>
    /\ parsed' = <<[via |-> "parse_file",
                    rows |-> parse_file(text_file[1], <<>>)]>>
    /\ UNCHANGED <<passed, text_file, analysis>>
    /\ UNCHANGED <<pipeVars, rowVars, twinVars, catalogVars, errVars, checkVars, inferVars>>

\* DMVFileParser().parse_query_store_files(directory)
ParseQueryStoreFiles ==
    /\ text_file # <<>>
    /\ parsed = <<>>
    /\ parsed' = <<[via |-> "parse_query_store_files",
                    rows |-> parse_query_store_files(text_file[1])]>>
    /\ UNCHANGED <<passed, text_file, analysis>>
    /\ UNCHANGED <<pipeVars, rowVars, twinVars, catalogVars, errVars, checkVars, inferVars>>

RoundTripNext == ExportCollection \/ ParseFile \/ ParseQueryStoreFiles

RoundTripSpec == RoundTripInit /\ [][RoundTripNext]_vars

\* C21: exporting a collection of any size with TextExporter and re-reading
\* it with parse_file or with parse_query_store_files and its default
\* arguments gives as many rows as records were exported.
C21_RoundTripKeepsRowCount ==
    parsed # <<>> => Len(parsed[1].rows) = Len(passed.entities)

\* C21 as amended: parse_file gives as many rows as records were exported,
\* and parse_query_store_files with its default arguments gives as many rows
\* as records were exported up to its default limit of 1000 rows per file,
\* and 1000 rows for a larger collection.
C21_RoundTripUpToDefaultLimit ==
    parsed # <<>> =>
        IF parsed[1].via = "parse_file"
        THEN Len(parsed[1].rows) = Len(passed.entities)
        ELSE Len(parsed[1].rows) = Min(Len(passed.entities), DefaultMaxRows)

\* Query texts holding a delimiter were exported, 1000 of them, and read back
\* by parse_query_store_files.
C21_Witness ==
    /\ parsed # <<>>
    /\ parsed[1].via = "parse_query_store_files"
    /\ passed.collection = "query_texts"
    /\ Len(passed.entities) = DefaultMaxRows
    /\ Len(passed.entities[1].sql) = 2
    /\ Len(parsed[1].rows) = DefaultMaxRows

\* ----------------------------------- the statistical analyzer, AnalyzerSpec
\* Longest runtime-statistics file analysed, in lines.
MaxFileRows == 3

\* The values of the lines analysed, as text.  float() reads the first three
\* (the third after its comma became a point) and raises ValueError on the rest.
float(text) ==
    CASE text = "12" -> <<R(12)>>
      [] text = "1500" -> <<R(1500)>>
      [] text = "1500.5" -> <<Frac(3001, 2)>>
      [] OTHER -> <<>>

\* value.replace(",", ".")
replace_comma(text) == IF text = "1500,5" THEN "1500.5" ELSE text

\* StatisticalAnalyzer._safe_float; value is <<>> for None, else <<piece>>.
safe_float(value, default) ==
    IF value = <<>> THEN default
    ELSE LET read == float(replace_comma(value[1].text))
         IN  IF read = <<>> THEN default ELSE read[1]

\* row.get("col_<c>") or row.get(<column name>): None for a missing or empty
\* column, as the rows of parse_file carry no column names.
get_col(row, c) ==
    IF c + 1 <= Len(row.cols) /\ row.cols[c + 1] # <<>>
       /\ row.cols[c + 1][1].text # ""
    THEN row.cols[c + 1]
    ELSE <<>>

\* The list a column of analyze_runtime_stats collects: the values above 0.
Positive(rows, c) ==
    LET values == [i \in 1 .. Len(rows) |-> safe_float(get_col(rows[i], c), R(0))]
    IN  SelectSeq(values, LAMBDA v : v.num > 0)

\* StatisticalAnalyzer.analyze_runtime_stats: the six lists it extracts and
\* the means it reports of two of them; no branch of it raises.
analyze_runtime_stats(rows) ==
    IF rows = <<>> THEN [raised |-> FALSE, default_profile |-> TRUE]
    ELSE LET durations == Positive(rows, 8)
             executions == [i \in 1 .. Len(rows) |->
                               safe_float(get_col(rows[i], 7), R(1))]
         IN  [raised |-> FALSE,
              default_profile |-> FALSE,
              durations |-> durations,
              cpu_times |-> Positive(rows, 12),
              logical_reads |-> Positive(rows, 16),
              physical_reads |-> Positive(rows, 24),
              rowcounts |-> Positive(rows, 36),
              executions |-> executions,
              duration_mean |-> np_mean(IF durations = <<>> THEN <<R(1000)>>
                                        ELSE durations),
              executions_per_hour |-> np_mean(executions)]

\* The lines of the files analysed: a well-formed line of 40 values, one with
\* a decimal comma, one that breaks off behind count_executions, one with a
\* value too many, and two with text in a numeric column.
LineKinds == {"good", "comma", "short", "long", "bad_duration", "bad_count"}

Line(kind) ==
    [k \in 1 .. (CASE kind = "short" -> 8 [] kind = "long" -> 41 [] OTHER -> 40) |->
        Piece(CASE k = 8 /\ kind = "bad_count" -> "n/a"
                [] k = 9 /\ kind = "bad_duration" -> "abc"
                [] k = 9 /\ kind = "comma" -> "1500,5"
                [] k = 8 -> "12"
                [] k \in {9, 13, 17, 25, 37} -> "1500"
                [] OTHER -> "value")]

\* A runtime-statistics file stands in the directory; nothing is parsed.
AnalyzerInit ==
    /\ NothingGenerated
    /\ passed = [collection |-> "", entities |-> <<>>]
    /\ \E n \in 1 .. MaxFileRows :
          \E kinds \in [1 .. n -> LineKinds] :
              text_file = <<[k \in 1 .. n |-> Line(kinds[k])]>>
    /\ parsed = <<>>
    /\ analysis = <<>>
    /\ CheckIdle
    /\ InferIdle

\* StatisticalAnalyzer().analyze_runtime_stats(data.runtime_stats)
AnalyzeRuntimeStats ==
    /\ parsed # <<>>
    /\ analysis = <<>>
    /\ analysis' = <<analyze_runtime_stats(parsed[1].rows)>>
    /\ UNCHANGED <<passed, text_file, parsed>>
    /\ UNCHANGED <<pipeVars, rowVars, twinVars, catalogVars, errVars, checkVars, inferVars>>

AnalyzerNext == ParseQueryStoreFiles \/ AnalyzeRuntimeStats

AnalyzerSpec == AnalyzerInit /\ [][AnalyzerNext]_vars

\* A row with the 40 fields of a runtime-statistics line and a number in each
\* column the analyzer reads.
WellFormedRow(row) ==
    /\ Len(row.cols) = 40
    /\ row.rest = <<>>
    /\ \A c \in {7, 8, 12, 16, 24, 36} :
          /\ row.cols[c + 1] # <<>>
          /\ float(replace_comma(row.cols[c + 1][1].text)) # <<>>

\* C22: a malformed row (wrong number of fields, or text in a numeric
\* column) is skipped, so that nothing of it enters the analysis, and parsing
\* and analysis go on with the other rows without raising.
C22_MalformedRowsSkipped ==
    analysis # <<>> =>
        LET rows == parsed[1].rows
            kept == SelectSeq(rows, WellFormedRow)
        IN  /\ ~analysis[1].raised
            /\ analysis[1] = analyze_runtime_stats(kept)

\* ------------------------------------ profile, text and inference, InferSpec
\* _select_query_profile: the profiles rng.choice can return (every
\* proportion is positive).
select_query_profile(workload) ==
    {workload.query_profiles[i][1] : i \in 1 .. Len(workload.query_profiles)}

\* A generator of one of the eight workloads holds a profile: one its
\* _select_query_profile returns (by_selection), or any of the three.
InferInit ==
    /\ NothingGenerated
    /\ IoIdle
    /\ CheckIdle
    /\ \E key \in WorkloadNames, profile \in InferredProfiles :
          chosen = <<[workload |-> key, profile |-> profile,
                      by_selection |->
                          profile \in select_query_profile(workloads(key))]>>
    /\ sql_text = <<>>
    /\ inferred = <<>>

\* sql_text = self._generate_sql_for_profile(query_profile)
GenerateSqlForProfile ==
    /\ sql_text = <<>>
    /\ \E query_type \in QueryTypes(chosen[1].profile) :
          \E variant \in Variants(query_type) :
              \E words \in [1 .. WordCalls(query_type, variant) -> Words] :
                  sql_text' = <<SqlText(query_type, variant, words)>>
    /\ UNCHANGED <<chosen, inferred>>
    /\ UNCHANGED <<pipeVars, rowVars, twinVars, catalogVars, errVars, ioVars, checkVars>>

\* profile = self._infer_profile_from_sql(query_text.query_sql_text)
InferProfileFromSql ==
    /\ sql_text # <<>>
    /\ inferred = <<>>
    /\ inferred' = <<_infer_profile_from_sql(workloads(chosen[1].workload),
                                             sql_text[1])>>
    /\ UNCHANGED <<chosen, sql_text>>
    /\ UNCHANGED <<pipeVars, rowVars, twinVars, catalogVars, errVars, ioVars, checkVars>>

InferNext == GenerateSqlForProfile \/ InferProfileFromSql

InferSpec == InferInit /\ [][InferNext]_vars

\* C23: for every workload, _infer_profile_from_sql returns the OLAP profile
\* for a text with a join and an aggregate, else the Problematic profile for
\* a text with a cross join, a leading-wildcard LIKE or a function on a
\* column, and the OLTP profile for every other text.
C23_InferenceByPattern ==
    inferred # <<>> =>
        LET sql == sql_text[1]
            analytical == /\ Contains(sql, "join")
                          /\ \/ Contains(sql, "group by")
                             \/ Contains(sql, "sum(")
                             \/ Contains(sql, "avg(")
            problem == \/ Contains(sql, "cross join")
                       \/ Contains(sql, "like '%")
                       \/ Contains(sql, "year(")
        IN  inferred[1] = IF analytical THEN OLAP_PROFILE
                          ELSE IF problem THEN PROBLEM_PROFILE
                          ELSE OLTP_PROFILE

\* C27: for every workload, the profile inferred from the SQL text of a
\* query text is the profile that was selected for it when the text was
\* generated.
C27_InferenceRecoversProfile ==
    (inferred # <<>> /\ chosen[1].by_selection) =>
        inferred[1] = chosen[1].profile

\* ------------------------------------------ the validators, ValidatorSpec
\* Largest value of a statistic handed to the validator.
MaxStat == 2

\* What a validator gives: None, or the error it raises.
Returned == "None"
ValueError == "ValueError"

\* validate_non_negative(value, name)
validate_non_negative(value) == IF value < 0 THEN ValueError ELSE Returned

\* validate_stats_consistency(stats)
validate_stats_consistency(s) ==
    IF \E k \in {"min", "avg", "max", "last", "stdev"} :
           validate_non_negative(s[k]) = ValueError
    THEN ValueError
    ELSE IF s["min"] > s["avg"] THEN ValueError
    ELSE IF s["avg"] > s["max"] THEN ValueError
    ELSE IF s["min"] > s["max"] THEN ValueError
    ELSE Returned

\* A caller holds a stats dictionary.
ValidatorInit ==
    /\ NothingGenerated
    /\ IoIdle
    /\ InferIdle
    /\ given_stats \in [{"min", "avg", "max", "last", "stdev"} -> -1 .. MaxStat]
    /\ verdict = <<>>

\* validate_stats_consistency(given_stats): the dictionary is only read.
ValidateStatsConsistency ==
    /\ verdict = <<>>
    /\ verdict' = <<validate_stats_consistency(given_stats)>>
    /\ UNCHANGED given_stats
    /\ UNCHANGED <<pipeVars, rowVars, twinVars, catalogVars, errVars, ioVars, inferVars>>

ValidatorNext == ValidateStatsConsistency

ValidatorSpec == ValidatorInit /\ [][ValidatorNext]_vars

\* C26: validate_stats_consistency raises exactly when the stats violate
\* min <= avg <= max, violate min <= last <= max or hold a negative value,
\* and returns normally otherwise, leaving the stats as they were.
C26_RaisesExactlyOnInconsistency ==
    [][ValidateStatsConsistency =>
        /\ given_stats' = given_stats
        /\ (verdict'[1] = ValueError) <=>
              \/ \E k \in DOMAIN given_stats : given_stats[k] < 0
              \/ ~(given_stats["min"] <= given_stats["avg"]
                    /\ given_stats["avg"] <= given_stats["max"])
              \/ ~(given_stats["min"] <= given_stats["last"]
                    /\ given_stats["last"] <= given_stats["max"])]_vars

\* ------------------------------------------------ stage prerequisites
\* The collection(s) a stage method iterates over: the output of the stage
\* before it (query texts and intervals iterate over nothing generated).
EmptyPrerequisite(stage) ==
    CASE stage = "queries" -> query_texts = <<>>
      [] stage = "plans" -> queries = <<>>
      [] stage = "runtime_stats" -> plans = <<>> \/ intervals = <<>>
      [] stage = "wait_stats" -> runtime_stats = <<>>
      [] OTHER -> FALSE

\* A stage method that ran to its end and returned.
ReturnedNormally(stage) ==
    CASE stage = "queries" -> GenerateQueries
      [] stage = "plans" -> GeneratePlans
      [] stage = "runtime_stats" -> GenerateRuntimeStatistics
      [] stage = "wait_stats" -> GenerateWaitStatistics
      [] OTHER -> FALSE

\* C24: a stage method invoked while the collection of its predecessor
\* stage is empty fails instead of running to its end and silently
\* producing nothing, so no stage method returns normally from such a call.
C24_EmptyPrerequisiteFails ==
    [][\A stage \in {"queries", "plans", "runtime_stats", "wait_stats"} :
          EmptyPrerequisite(stage) => ~ReturnedNormally(stage)]_vars

\* ------------------------------------------ the fields of queries and plans
\* FieldSpec follows stages 3 and 4 of generate() with the fields of Query
\* and ExecutionPlan that are drawn at random; the rows of Spec carry the
\* ids only.

\* The two draws `rng.random() < 0.7` of one Query, in source order: the
\* first decides query_parameterization_type, the second decides
\* query_parameterization_type_desc.
ParameterizationDraws == [type_below : BOOLEAN, desc_below : BOOLEAN]

\* Query(...) as _generate_queries builds it.
Query(row, d) ==
    [query_id |-> row.query_id,
     query_text_id |-> row.query_text_id,
     query_parameterization_type |-> IF d.type_below THEN 0 ELSE 1,
     query_parameterization_type_desc |-> IF d.desc_below THEN "None" ELSE "User"]

\* The draws of one ExecutionPlan: rng.uniform(0, range_seconds) as an offset
\* from start_time (its low end and the middle of the range), and whole hours
\* inside rng.uniform(0, 24) and rng.uniform(1, 48).
PlanTimeDraws(cfg) ==
    [base : {0, (cfg.end_time - cfg.start_time) \div 2},
     compile_hours : {0, 23},
     execution_hours : {1, 47}]

\* ExecutionPlan(...) as _generate_plans builds it.
ExecutionPlan(row, cfg, d) ==
    LET base_time == cfg.start_time + d.base
    IN  [plan_id |-> row.plan_id,
         query_id |-> row.query_id,
         initial_compile_start_time |-> base_time,
         last_compile_start_time |-> base_time + timedelta(d.compile_hours),
         last_execution_time |-> base_time + timedelta(d.execution_hours)]

\* generate() has run stages 1 and 2 and is about to call _generate_queries;
\* the time range of the configuration is not reversed.
FieldInit ==
    /\ config \in {cfg \in Configs : cfg.start_time <= cfg.end_time}
    /\ pc = "queries"
    /\ calls = 0
    /\ intervals = IntervalsAfter(<<>>, config)
    /\ LET st == QueryTextLoop(0, config.num_unique_queries,
                               [counters |-> <<>>, rows |-> <<>>])
       IN  counters = st.counters /\ query_texts = st.rows
    /\ queries = <<>>
    /\ plans = <<>>
    /\ runtime_stats = <<>>
    /\ wait_stats = <<>>
    /\ stats = <<>>
    /\ wait_stat = <<>>
    /\ drawn = <<>>
    /\ wait_rows = <<>>
    /\ twin = <<>>
    /\ join_at = 0
    /\ faker_pos = 0
    /\ tape = <<>>
    /\ given_name = NoName
    /\ outcome = <<>>
    /\ errorlog = NoErrorLog
    /\ exported = <<>>
    /\ IoIdle
    /\ CheckIdle
    /\ InferIdle

\* SyntheticDMVGenerator._generate_queries with the fields of each Query.
GenerateQueriesWithFields ==
    /\ pc = "queries"
    /\ \E num_queries \in [1 .. Len(query_texts) -> integers(1, 3)] :
         LET st == QueryLoop(1, query_texts, num_queries,
                             [counters |-> counters, rows |-> queries])
         IN  /\ counters' = st.counters
             /\ \E d \in [DOMAIN st.rows -> ParameterizationDraws] :
                  queries' = [i \in DOMAIN st.rows |-> Query(st.rows[i], d[i])]
    /\ pc' = NextStage("queries")
    /\ UNCHANGED <<rowVars, twinVars, catalogVars, errVars, ioVars, checkVars, inferVars>>
    /\ UNCHANGED <<config, calls, intervals, query_texts, plans, runtime_stats,
                   wait_stats>>

\* SyntheticDMVGenerator._generate_plans with the timestamps of each plan.
GeneratePlansWithFields ==
    /\ pc = "plans"
    /\ \E num_plans \in [1 .. Len(queries) -> NumPlansDraws(config)] :
         LET st == PlanLoop(1, queries, num_plans,
                            [counters |-> counters, rows |-> plans])
         IN  /\ counters' = st.counters
             /\ \E d \in [DOMAIN st.rows -> PlanTimeDraws(config)] :
                  plans' = [i \in DOMAIN st.rows |->
                              ExecutionPlan(st.rows[i], config, d[i])]
    /\ pc' = NextStage("plans")
    /\ UNCHANGED <<rowVars, twinVars, catalogVars, errVars, ioVars, checkVars, inferVars>>
    /\ UNCHANGED <<config, calls, intervals, query_texts, queries,
                   runtime_stats, wait_stats>>

FieldNext == GenerateQueriesWithFields \/ GeneratePlansWithFields

FieldSpec == FieldInit /\ [][FieldNext]_vars

\* C25: every generated plan has its initial compile time, its last compile
\* time and its last execution time inside [config.start_time,
\* config.end_time].
C25_PlanTimesWithinRange ==
    \A i \in DOMAIN plans :
        \A t \in {plans[i].initial_compile_start_time,
                  plans[i].last_compile_start_time,
                  plans[i].last_execution_time} :
            config.start_time <= t /\ t <= config.end_time

\* C30: for every generated query, query_parameterization_type_desc is "None"
\* exactly when query_parameterization_type is 0 and "User" exactly when it
\* is 1.
C30_ParameterizationFieldsAgree ==
    \A i \in DOMAIN queries :
        /\ queries[i].query_parameterization_type_desc = "None"
              <=> queries[i].query_parameterization_type = 0
        /\ queries[i].query_parameterization_type_desc = "User"
              <=> queries[i].query_parameterization_type = 1

\* C29: in every RuntimeStats row, under every named workload, the physical
\* reads do not exceed the logical reads, for each of the avg, last, min and
\* max columns.
C29_PhysicalReadsWithinLogical ==
    stats # <<>> =>
        \A column \in {"avg", "last", "min", "max"} :
            RLeq(stats[1].physical_io_reads[column],
                 stats[1].logical_io_reads[column])

\* ------------------------------------------- the interval walk, step by step
\* WalkSpec follows the while loop of _generate_time_intervals one iteration
\* at a time, for any integer interval_hours; the list it builds is
\* self.intervals.

\* Number of iterations of the loop that are followed.
MaxWalk == 16

\* GeneratorConfig checks nothing: interval_hours is any integer.
WalkConfigs ==
    { [DefaultConfig EXCEPT !.end_time = timedelta(e),
                            !.interval_hours = h] :
        e \in (-1) .. MaxEndHours,
        h \in (-MaxIntervalHours) .. MaxIntervalHours }

\* current_time of the loop: start_time before the first iteration, then the
\* end_time of the interval appended last.
CurrentTime ==
    IF intervals = <<>> THEN config.start_time
    ELSE intervals[Len(intervals)].end_time

\* generate() is about to call the interval stage.
WalkInit ==
    /\ config \in WalkConfigs
    /\ pc = "intervals"
    /\ calls = 0
    /\ counters = <<>>
    /\ intervals = <<>>
    /\ query_texts = <<>>
    /\ queries = <<>>
    /\ plans = <<>>
    /\ runtime_stats = <<>>
    /\ wait_stats = <<>>
    /\ stats = <<>>
    /\ wait_stat = <<>>
    /\ drawn = <<>>
    /\ wait_rows = <<>>
    /\ twin = <<>>
    /\ join_at = 0
    /\ faker_pos = 0
    /\ tape = <<>>
    /\ given_name = NoName
    /\ outcome = <<>>
    /\ errorlog = NoErrorLog
    /\ exported = <<>>
    /\ IoIdle
    /\ CheckIdle
    /\ InferIdle

\* One iteration of `while current_time < self.config.end_time`.
WalkIteration ==
    /\ pc = "intervals"
    /\ CurrentTime < config.end_time
    /\ Len(intervals) < MaxWalk
    /\ LET end_time == Min(CurrentTime + timedelta(config.interval_hours),
                           config.end_time)
       IN  intervals' = Append(intervals,
                [runtime_stats_interval_id |-> Len(intervals) + 1,
                 start_time |-> CurrentTime,
                 end_time |-> end_time])
    /\ UNCHANGED <<rowVars, twinVars, catalogVars, errVars, ioVars, checkVars, inferVars>>
    /\ UNCHANGED <<config, pc, calls, counters, query_texts, queries, plans,
                   runtime_stats, wait_stats>>

\* The loop condition is false: the walk returns and generate() goes on.
WalkReturn ==
    /\ pc = "intervals"
    /\ ~(CurrentTime < config.end_time)
    /\ pc' = NextStage("intervals")
    /\ UNCHANGED <<rowVars, twinVars, catalogVars, errVars, ioVars, checkVars, inferVars>>
    /\ UNCHANGED <<config, calls, counters, intervals, query_texts, queries,
                   plans, runtime_stats, wait_stats>>

WalkNext == WalkIteration \/ WalkReturn

\* The interpreter keeps executing the loop.
WalkSpec == WalkInit /\ [][WalkNext]_vars /\ WF_vars(WalkNext)

\* The walk leaves the loop.
IntervalWalkTerminates == <>(pc # "intervals")

\* C28: interval generation terminates for every configuration, whatever
\* integer interval_hours is: each iteration of the walk moves current_time
\* strictly forward, and never past end_time, so that end_time is reached
\* after finitely many iterations.
C28_WalkAdvancesToEnd ==
    [][WalkIteration =>
        CurrentTime < CurrentTime' /\ CurrentTime' <= config.end_time]_vars

=============================================================================
